---- MODULE Spec2Model ----
(***************************************************************************)
(* LokanOS.                                                                *)
(*                                                                         *)
(* The OTA updater (services/updater): UpdaterState (state.rs) is the A/B  *)
(* slot state machine; UpdaterCore (core.rs) drives it under one tokio     *)
(* Mutex and persists it through a StateStore (store.rs); lib.rs maps      *)
(* UpdaterError to an HTTP status.                                         *)
(*                                                                         *)
(* The audit log (services/audit-log): AuditWriter appends hash-chained    *)
(* records to a newline-delimited file under one tokio Mutex.              *)
(*                                                                         *)
(* The API gateway (services/api-gateway): RbacPolicy (rbac.rs) decides    *)
(* requests by role, method and path; RateLimiter (rate_limit.rs) is a     *)
(* token bucket behind one tokio Mutex; lib.rs layers rbac_guard and       *)
(* rate_limit_guard around the handlers of the protected routes.           *)
(*                                                                         *)
(* The rule engine (services/rule-engine): run_scheduler evaluates the     *)
(* due rules of the registry on every tick and records a trace entry per   *)
(* evaluation in a buffer per rule id.                                     *)
(*                                                                         *)
(* The radio coordinator (services/radio-coord): each accepted request is  *)
(* published on the bus and then written to the in-memory RadioMap.        *)
(*                                                                         *)
(* The updater's health gate (services/updater/src/health.rs): it polls    *)
(* the endpoints in rounds until a quorum answers ok or the deadline has   *)
(* passed.                                                                 *)
(*                                                                         *)
(* The updater's file store (services/updater/src/store.rs): save creates  *)
(* the state file anew and writes the JSON of the state into it; load      *)
(* parses what the file holds.                                             *)
(*                                                                         *)
(* The gateway's commissioning handlers (services/api-gateway/src/         *)
(* commissioning.rs): each validates its request, publishes an event on    *)
(* the bus and answers.                                                    *)
(*                                                                         *)
(* The in-process bus (crates/common-msgbus, MockBus): a request is sent   *)
(* with a fresh reply subject and waits on a one-shot channel that respond *)
(* completes.                                                              *)
(*                                                                         *)
(* The scene service (services/scene-svc): apply_scene writes the state of *)
(* each operation's device through the device registry, and writes back    *)
(* what it read when an operation fails.                                   *)
(***************************************************************************)
EXTENDS Integers, Sequences, FiniteSets, TLC

VARIABLES
    callers,   \* the tasks calling into one UpdaterCore instance
    state,     \* UpdaterCore.state: the UpdaterState behind the mutex
    stored,    \* what the StateStore holds: the last state saved, if any
    call,      \* per caller: where its commit_on_health call stands
    last,      \* the UpdaterCore call that returned last, with its outcome
    prior,     \* the stage call that returned right before `last`, if one did
    moved      \* how far the calls since a commit moved `active` have gone

updaterVars == <<callers, state, stored, call, last, prior, moved>>

VARIABLES
    log_file,     \* the bytes of the audit log file: records and newlines
    writer,       \* the audit-log process: whether it serves, and
                  \* AuditWriter.prev_hash
    writer_lock,  \* the request holding AppState.writer's mutex, or 0
    record_event  \* per request: where its record_event call stands

auditVars == <<log_file, writer, writer_lock, record_event>>

VARIABLES
    policy,    \* the gateway's RbacPolicy: rules in file order, and inherit
    authz      \* one authorize call: its arguments and the Decision returned

rbacVars == <<policy, authz>>

VARIABLES
    limiter,   \* the gateway's RateLimiter: capacity, rate and the State
    now,       \* what Instant::now() reads, in ticks
    checks     \* the check() calls returned so far, in order, with outcomes

limiterVars == <<limiter, now, checks>>

VARIABLES
    audit_client,  \* the gateway's AuditClient: enabled, and the endpoint
    requests       \* per request to a protected route: how far it has come
                   \* through the layers, and what was done for it

gatewayVars == <<audit_client, requests>>

VARIABLES
    rules,      \* the rule engine's registry: id -> RuleInstance
    traces,     \* the trace buffers: id -> VecDeque<RuleTraceEntry>
    scheduler,  \* run_scheduler: its tick, and what Utc::now() reads
    evaluated,  \* per rule: the evaluate_rule calls of the latest tick
    rule_calls  \* the create_rule call under way, and the answers of the
                \* latest create_rule and rule_trace calls

engineVars == <<rules, traces, scheduler, evaluated, rule_calls>>

VARIABLES
    radio_map,      \* the radio coordinator's RadioMapSnapshot
    radio_bus,      \* the events published on the bus, in order
    radio_requests  \* per request: how far its handler has come

radioVars == <<radio_map, radio_bus, radio_requests>>

VARIABLES
    health,        \* one wait_for_quorum call of the HttpHealthClient
    health_clock   \* what Instant::now() reads for it, in poll intervals

healthVars == <<health, health_clock>>

VARIABLES
    state_file,    \* the file of a FileStateStore: missing, or its bytes
    store_run      \* the process using the store: the save it is in, what
                   \* its last load returned, and the saves done so far

storeVars == <<state_file, store_run>>

VARIABLES
    comm_requests,  \* per commissioning request of one client, in the order
                    \* sent: its body and how far its handler has come
    comm_bus        \* the events the bus took from the gateway, in order

commVars == <<comm_requests, comm_bus>>

VARIABLES
    mock_bus,      \* one MockBus: request_counter, pending, and what its
                   \* subscriber received
    bus_requests,  \* per task calling request: how far its call has come
    bus_responds,  \* the respond calls returned so far, in order
    bus_clock      \* the time, in seconds

busVars == <<mock_bus, bus_requests, bus_responds, bus_clock>>

VARIABLES
    scene_devices,  \* the device registry: device id -> state
    scene_call      \* one apply_scene call: its locals, how far it has
                    \* come, and the apply_state calls it has made

sceneVars == <<scene_devices, scene_call>>

\* The services other than the updater, the audit log and the gateway.
restVars ==
    <<engineVars, radioVars, healthVars, storeVars, commVars, busVars,
      sceneVars>>

firstVars == <<updaterVars, auditVars, rbacVars, limiterVars, gatewayVars>>
notEngineVars ==
    <<firstVars, radioVars, healthVars, storeVars, commVars, busVars,
      sceneVars>>
notRadioVars ==
    <<firstVars, engineVars, healthVars, storeVars, commVars, busVars,
      sceneVars>>
notHealthVars ==
    <<firstVars, engineVars, radioVars, storeVars, commVars, busVars,
      sceneVars>>
notStoreVars ==
    <<firstVars, engineVars, radioVars, healthVars, commVars, busVars,
      sceneVars>>
notCommVars ==
    <<firstVars, engineVars, radioVars, healthVars, storeVars, busVars,
      sceneVars>>
notBusVars ==
    <<firstVars, engineVars, radioVars, healthVars, storeVars, commVars,
      sceneVars>>
notSceneVars ==
    <<firstVars, engineVars, radioVars, healthVars, storeVars, commVars,
      busVars>>

vars == <<updaterVars, auditVars, rbacVars, limiterVars, gatewayVars, restVars>>

----------------------------------------------------------------------------
(* Bounds of the model.                                                    *)

\* Stage is not called once UpdaterState.generation has reached this value.
MaxGeneration == 2
\* Number of distinct artifact paths handed to stage.
NumArtifacts == 2
\* Number of tasks calling concurrently in SpecConc.
NumConcurrent == 2

----------------------------------------------------------------------------
(* state.rs: the data model.                                               *)

Slot == {"A", "B"}
\* Slot::ALL, in order.
SlotAll == <<"A", "B">>
\* Option<Slot>::None
NoSlot == "None"
OptSlot == Slot \cup {NoSlot}

other(slot) == IF slot = "A" THEN "B" ELSE "A"

SlotState == {"Inactive", "Staged", "Booting", "Active", "Bad"}

\* Option<String>: <<>> is None, <<"artifact", i>> is Some(path i).
NoArtifact == <<>>
Artifacts == {<<"artifact", i>> : i \in 1..NumArtifacts}

SlotInfoNew(st) == [state |-> st, artifact |-> NoArtifact, generation |-> 0]

DefaultState ==
    [ generation      |-> 0,
      active          |-> "A",
      previous_active |-> NoSlot,
      staging         |-> NoSlot,
      last_failed     |-> NoSlot,
      slots           |-> [s \in Slot |-> IF s = "A" THEN SlotInfoNew("Active")
                                                     ELSE SlotInfoNew("Inactive")] ]

\* Result<Slot, _> and Option<Slot> returned by the operations: the new state
\* with either a slot (err = "None") or the name of the error.
Ok(s, slot) == [s |-> s, err |-> "None", slot |-> slot]
Err(s, e) == [s |-> s, err |-> e, slot |-> NoSlot]

----------------------------------------------------------------------------
(* state.rs: the six operations of UpdaterState, as functions from the    *)
(* state before the call to the state after it and the value returned.    *)

\* stage_write with the slot's own generation left as it was.
stage_write_unrecorded(s, slot, artifact) ==
    [s EXCEPT !.generation = s.generation + 1,
              !.slots[slot] = [state |-> "Staged", artifact |-> artifact,
                               generation |-> s.slots[slot].generation]]

\* The write both branches of stage end with: the slot becomes Staged with
\* the artifact, the global generation is bumped and recorded on the slot.
stage_write(s, slot, artifact) ==
    LET gen == s.generation + 1 IN
    [s EXCEPT !.generation = gen,
              !.slots[slot] = [state |-> "Staged", artifact |-> artifact,
                               generation |-> gen]]

is_slot_available_for_stage(s, slot) ==
    IF s.active = slot /\ s.slots[slot].state = "Active"
    THEN FALSE
    ELSE s.slots[slot].state \in {"Inactive", "Bad", "Staged"}

\* stage_existing without the early return for a matching Staged artifact.
stage_existing_rewrites(s, slot, artifact, target) ==
    IF target # NoSlot /\ target # slot THEN Err(s, "TargetSlotMismatch")
    ELSE IF s.slots[slot].state = "Booting" THEN Err(s, "SlotBooting")
    ELSE Ok(stage_write(s, slot, artifact), slot)

\* stage, when self.staging is Some(slot).
stage_existing(s, slot, artifact, target) ==
    LET info == s.slots[slot] IN
    IF target # NoSlot /\ target # slot THEN Err(s, "TargetSlotMismatch")
    ELSE IF info.state = "Booting" THEN Err(s, "SlotBooting")
    ELSE IF info.state = "Staged" /\ info.artifact = artifact THEN Ok(s, slot)
    ELSE Ok(stage_write(s, slot, artifact), slot)

\* stage, when self.staging is None: Some(candidate) or the error.
stage_candidate(s, target) ==
    IF target # NoSlot
    THEN IF is_slot_available_for_stage(s, target)
         THEN [err |-> "None", slot |-> target]
         ELSE [err |-> "TargetSlotUnavailable", slot |-> NoSlot]
    ELSE IF \E i \in 1..Len(SlotAll) : is_slot_available_for_stage(s, SlotAll[i])
         THEN [err |-> "None",
               slot |-> SlotAll[CHOOSE i \in 1..Len(SlotAll) :
                            /\ is_slot_available_for_stage(s, SlotAll[i])
                            /\ \A j \in 1..(i - 1) :
                                  ~is_slot_available_for_stage(s, SlotAll[j])]]
         ELSE [err |-> "NoAvailableSlot", slot |-> NoSlot]

stage(s, artifact, target) ==
    IF s.staging # NoSlot
    THEN stage_existing(s, s.staging, artifact, target)
    ELSE LET c == stage_candidate(s, target) IN
         IF c.err # "None"
         THEN Err(s, c.err)
         ELSE Ok([stage_write(s, c.slot, artifact) EXCEPT !.staging = c.slot],
                 c.slot)

begin_commit(s) ==
    IF s.staging = NoSlot THEN Err(s, "NothingStaged")
    ELSE LET slot == s.staging IN
         CASE s.slots[slot].state = "Staged" ->
                  Ok([s EXCEPT !.slots[slot].state = "Booting"], slot)
           [] s.slots[slot].state = "Booting" -> Ok(s, slot)
           [] OTHER -> Err(s, "InvalidStageState")

\* finalize_commit that forgets to demote the slot that was active.
finalize_commit_no_demote(s, slot) ==
    [s EXCEPT !.slots[slot].state = "Active",
              !.previous_active = IF s.active # slot THEN s.active ELSE NoSlot,
              !.active = slot,
              !.staging = NoSlot,
              !.last_failed = NoSlot]

finalize_commit(s, slot) ==
    LET prev == s.active
        demoted == IF prev # NoSlot /\ prev # slot
                   THEN [s EXCEPT !.slots[prev].state = "Inactive"]
                   ELSE s
    IN [demoted EXCEPT !.slots[slot].state = "Active",
                       !.previous_active = IF prev # slot THEN prev ELSE NoSlot,
                       !.active = slot,
                       !.staging = NoSlot,
                       !.last_failed = NoSlot]

\* fail_commit that leaves `staging` pointing at the failed slot.
fail_commit_keeps_staging(s, slot) ==
    [s EXCEPT !.slots[slot].state = "Bad",
              !.last_failed = slot]

fail_commit(s, slot) ==
    [s EXCEPT !.slots[slot].state = "Bad",
              !.last_failed = slot,
              !.staging = NoSlot]

\* Returns Option<Slot>: slot is NoSlot when nothing was marked.
mark_active_bad(s) ==
    IF s.active = NoSlot THEN Ok(s, NoSlot)
    ELSE IF s.slots[s.active].state # "Active" THEN Ok(s, NoSlot)
    ELSE Ok([s EXCEPT !.slots[s.active].state = "Bad",
                      !.active = NoSlot,
                      !.last_failed = s.active], s.active)

\* rollback that leaves the failed slot in state Bad.
rollback_keeps_bad(s) ==
    IF s.previous_active = NoSlot THEN Err(s, "NoPreviousActive")
    ELSE IF s.last_failed = NoSlot THEN Err(s, "NoFailedSlot")
    ELSE LET prev == s.previous_active IN
         Ok([s EXCEPT !.slots[prev].state = "Active",
                      !.active = prev,
                      !.previous_active = NoSlot,
                      !.last_failed = NoSlot,
                      !.staging = NoSlot], prev)

\* rollback that takes previous_active out of the state before it looks at
\* last_failed, so that its NoFailedSlot error returns a changed state.
rollback_takes_first(s) ==
    IF s.previous_active = NoSlot THEN Err(s, "NoPreviousActive")
    ELSE IF s.last_failed = NoSlot
    THEN Err([s EXCEPT !.previous_active = NoSlot], "NoFailedSlot")
    ELSE rollback_keeps_bad(s)

rollback(s) ==
    IF s.previous_active = NoSlot THEN Err(s, "NoPreviousActive")
    ELSE IF s.last_failed = NoSlot THEN Err(s, "NoFailedSlot")
    ELSE LET prev == s.previous_active
             failed == s.last_failed
             restored == [s EXCEPT !.slots[prev].state = "Active"]
             demoted == IF restored.slots[failed].state = "Bad"
                        THEN [restored EXCEPT !.slots[failed].state = "Inactive"]
                        ELSE restored
         IN Ok([demoted EXCEPT !.active = prev,
                               !.previous_active = NoSlot,
                               !.last_failed = NoSlot,
                               !.staging = NoSlot], prev)

----------------------------------------------------------------------------
(* lib.rs: error_response, the HTTP status of each UpdaterError, and the  *)
(* status of the success responses of the three POST handlers.            *)

error_response(err) ==
    CASE err = "SlotBooting" -> 409
      [] err \in {"NoAvailableSlot", "TargetSlotUnavailable",
                  "TargetSlotMismatch", "InvalidBundle"} -> 400
      [] err = "NothingStaged" -> 400
      [] err = "InvalidStageState" -> 409
      [] err \in {"NoPreviousActive", "NoFailedSlot"} -> 409
      [] err = "HealthQuorumFailed" -> 503
      [] err \in {"Store", "Health"} -> 500

http_status(op, err) ==
    IF err # "None" THEN error_response(err)
    ELSE IF op = "stage" THEN 202 ELSE 200

----------------------------------------------------------------------------
(* bundle.rs: the bundle directory a stage call reads, with one component. *)
(* The manifest declares the component's sha256, sig/sha256sum holds an    *)
(* entry for it, the component file holds bytes, and sig/signature.pem     *)
(* does or does not verify against the checksum file.                      *)

ComponentBytes == {"c1", "c2"}

\* compute_sha256: the lower-case hex digest of the bytes of a file.
compute_sha256(bytes) == IF bytes = "c1" THEN "h1" ELSE "h2"

\* The bundles read: sound ones for either slot, and ones with one flaw,
\* whose target slot is never read.
Bundles ==
    { b \in [ target_slot : Slot, sha256 : {"h1"}, checksum_entry : {"h1"},
              bytes : ComponentBytes, signed : BOOLEAN ] :
         /\ b.signed \/ b.bytes = "c1"
         /\ (b.signed /\ b.bytes = "c1") \/ b.target_slot = "A" }

NoBundle == [none |-> TRUE]

\* verify that accepts every bundle.
verify_unchecked(bundle) == [err |-> "None", target_slot |-> bundle.target_slot]

\* FilesystemBundleVerifier::verify: Ok(metadata) or the BundleError.
verify(bundle) ==
    IF bundle.checksum_entry # bundle.sha256
    THEN [err |-> "ChecksumMismatch", target_slot |-> NoSlot]
    ELSE IF compute_sha256(bundle.bytes) # bundle.sha256
    THEN [err |-> "ChecksumMismatch", target_slot |-> NoSlot]
    ELSE IF ~bundle.signed
    THEN [err |-> "SignatureMismatch", target_slot |-> NoSlot]
    ELSE [err |-> "None", target_slot |-> bundle.target_slot]

----------------------------------------------------------------------------
(* store.rs: the StateStore holds Option<UpdaterState>.                    *)

NoStored == [some |-> FALSE]
SomeStored(s) == [some |-> TRUE, value |-> s]

\* StateStore::save: Ok(()) replaces the stored state; when it fails the Err
\* leaves the store as it was (the write never started).
save(store, s, saveFails) == IF saveFails THEN store ELSE SomeStored(s)

\* StateStore::load followed by the match of UpdaterCore::new.
load_or_default(store) == IF store.some THEN store.value ELSE DefaultState

----------------------------------------------------------------------------
(* core.rs: UpdaterCore.  Every section run under self.state.lock() is one *)
(* step: the mutex is held from the lock to the end of the section, the    *)
(* save included.  commit_on_health is two such sections with the health   *)
(* gate, run without the mutex, between them.                              *)

\* The Result of the UpdaterState operation a call ran, without the state.
Inner(r) == [err |-> r.err, slot |-> r.slot]
NotRun == [err |-> "NotRun", slot |-> NoSlot]

\* A call that has returned: what it was called with, what the health gate
\* yielded, the UpdaterState when the call first took the mutex (pre) and
\* when it returned (post), the Result of the UpdaterState operation it ran
\* (stage, begin_commit, mark_active_bad or rollback), the Result the call
\* returned (err = "None" for Ok) and the HTTP status lib.rs gives it.
Returned(op, artifact, target, healthy, pre, post, inner, err, slot) ==
    [ op |-> op, artifact |-> artifact, target |-> target,
      healthy |-> healthy, pre |-> pre, post |-> post, inner |-> inner,
      err |-> err, slot |-> slot, status |-> http_status(op, err),
      bundle |-> NoBundle ]

NoCall == [ op |-> "none", artifact |-> NoArtifact, target |-> NoSlot,
            healthy |-> "none", pre |-> DefaultState, post |-> DefaultState,
            inner |-> NotRun, err |-> "None", slot |-> NoSlot, status |-> 0,
            bundle |-> NoBundle ]

Idle == [pc |-> "idle", slot |-> NoSlot, pre |-> DefaultState]

\* The record of returned calls is kept while calls run one at a time; with
\* several callers nothing reads it and it stays as initialised.
Recording == Cardinality(callers) = 1

\* Whether the calls returned so far end with a commit_on_health that
\* returned Ok having moved `active` from one slot to another, then with a
\* mark_bad after it, then with a rollback after that; any other call
\* starts over.
NoMove == [phase |-> "none", from |-> NoSlot, to |-> NoSlot]

MovedAfter(rec) ==
    IF /\ rec.op = "commit"
       /\ rec.err = "None"
       /\ rec.pre.active # NoSlot
       /\ rec.post.active # rec.pre.active
    THEN [phase |-> "commit", from |-> rec.pre.active, to |-> rec.post.active]
    ELSE IF rec.op = "mark_bad" /\ moved.phase = "commit"
    THEN [moved EXCEPT !.phase = "mark_bad"]
    ELSE IF rec.op = "rollback" /\ moved.phase = "mark_bad"
    THEN [moved EXCEPT !.phase = "rollback"]
    ELSE NoMove

Return(rec) ==
    IF Recording
    THEN /\ last' = rec
         /\ prior' = IF last.op = "stage" /\ last.inner.err = "None"
                     THEN last ELSE NoCall
         /\ moved' = MovedAfter(rec)
    ELSE UNCHANGED <<last, prior, moved>>

\* The Result a section returns after `self.store.save(&state).await?`.
AfterSave(saveFails, err) == IF saveFails THEN "Store" ELSE err
SlotAfterSave(saveFails, slot) == IF saveFails THEN NoSlot ELSE slot

\* UpdaterCore::new on an empty store.
InitCore ==
    /\ stored = NoStored
    /\ state = load_or_default(stored)
    /\ call = [p \in callers |-> Idle]
    /\ last = NoCall
    /\ prior = NoCall
    /\ moved = NoMove

\* UpdaterCore::stage.  `bundle` is what the artifact's directory holds when
\* bundle_verifier.verify reads it, and `verified` the metadata's target
\* slot.
Core_stage(p) ==
    /\ call[p].pc = "idle"
    /\ state.generation < MaxGeneration
    /\ \E artifact \in Artifacts, bundle \in Bundles :
          IF verify(bundle).err # "None"
          THEN /\ Return([Returned("stage", artifact, NoSlot, "none", state,
                                   state, NotRun, "InvalidBundle", NoSlot)
                             EXCEPT !.bundle = bundle])
               /\ UNCHANGED <<state, stored>>
          ELSE LET verified == verify(bundle).target_slot
                   r == stage(state, artifact, verified)
               IN
               IF r.err # "None"
               THEN /\ Return([Returned("stage", artifact, verified, "none",
                                        state, r.s, Inner(r), r.err, NoSlot)
                                  EXCEPT !.bundle = bundle])
                    /\ state' = r.s
                    /\ UNCHANGED stored
               ELSE \E saveFails \in BOOLEAN :
                    /\ state' = r.s
                    /\ stored' = save(stored, r.s, saveFails)
                    /\ Return([Returned("stage", artifact, verified, "none",
                                        state, r.s, Inner(r),
                                        AfterSave(saveFails, "None"),
                                        SlotAfterSave(saveFails, r.slot))
                                  EXCEPT !.bundle = bundle])
    /\ UNCHANGED <<callers, call>>

\* commit_on_health, first section: begin_commit and save.
Core_commit_begin(p) ==
    /\ call[p].pc = "idle"
    /\ LET r == begin_commit(state) IN
       IF r.err # "None"
       THEN /\ Return(Returned("commit", NoArtifact, NoSlot, "none", state,
                               r.s, Inner(r), r.err, NoSlot))
            /\ state' = r.s
            /\ UNCHANGED <<stored, call>>
       ELSE \E saveFails \in BOOLEAN :
            /\ state' = r.s
            /\ stored' = save(stored, r.s, saveFails)
            /\ IF saveFails
               THEN /\ Return(Returned("commit", NoArtifact, NoSlot, "none",
                                       state, r.s, Inner(r), "Store", NoSlot))
                    /\ UNCHANGED call
               ELSE /\ call' = [call EXCEPT ![p] =
                                  [pc |-> "health", slot |-> r.slot,
                                   pre |-> IF Recording THEN state
                                                        ELSE DefaultState]]
                    /\ UNCHANGED <<last, prior, moved>>
    /\ UNCHANGED callers

\* commit_on_health, from the health gate on: wait_for_quorum yields
\* Ok(true), Ok(false) or an Err, and the second section finalizes or fails
\* the commit and saves.
Core_commit_finish(p) ==
    /\ call[p].pc = "health"
    /\ LET slot == call[p].slot
           pre == call[p].pre
           begun == [err |-> "None", slot |-> slot]
       IN
       \E healthy \in {"true", "false", "error"}, saveFails \in BOOLEAN :
          CASE healthy = "error" ->
                 /\ Return(Returned("commit", NoArtifact, NoSlot, healthy,
                                    pre, state, begun, "Health", NoSlot))
                 /\ UNCHANGED <<state, stored>>
            [] healthy = "true" ->
                 LET s2 == finalize_commit(state, slot) IN
                 /\ state' = s2
                 /\ stored' = save(stored, s2, saveFails)
                 /\ Return(Returned("commit", NoArtifact, NoSlot, healthy,
                                    pre, s2, begun, AfterSave(saveFails, "None"),
                                    SlotAfterSave(saveFails, slot)))
            [] healthy = "false" ->
                 LET s2 == fail_commit(state, slot) IN
                 /\ state' = s2
                 /\ stored' = save(stored, s2, saveFails)
                 /\ Return(Returned("commit", NoArtifact, NoSlot, healthy,
                                    pre, s2, begun,
                                    AfterSave(saveFails, "HealthQuorumFailed"),
                                    NoSlot))
    /\ call' = [call EXCEPT ![p] = Idle]
    /\ UNCHANGED callers

\* UpdaterCore::mark_bad: saves whether or not a slot was marked.
Core_mark_bad(p) ==
    /\ call[p].pc = "idle"
    /\ LET r == mark_active_bad(state) IN
       \E saveFails \in BOOLEAN :
          /\ state' = r.s
          /\ stored' = save(stored, r.s, saveFails)
          /\ Return(Returned("mark_bad", NoArtifact, NoSlot, "none", state,
                             r.s, Inner(r), AfterSave(saveFails, "None"),
                             SlotAfterSave(saveFails, r.slot)))
    /\ UNCHANGED <<callers, call>>

\* UpdaterCore::rollback.
Core_rollback(p) ==
    /\ call[p].pc = "idle"
    /\ LET r == rollback(state) IN
       IF r.err # "None"
       THEN /\ Return(Returned("rollback", NoArtifact, NoSlot, "none", state,
                               r.s, Inner(r), r.err, NoSlot))
            /\ state' = r.s
            /\ UNCHANGED stored
       ELSE \E saveFails \in BOOLEAN :
            /\ state' = r.s
            /\ stored' = save(stored, r.s, saveFails)
            /\ Return(Returned("rollback", NoArtifact, NoSlot, "none", state,
                               r.s, Inner(r), AfterSave(saveFails, "None"),
                               SlotAfterSave(saveFails, r.slot)))
    /\ UNCHANGED <<callers, call>>

\* The updater shares no state with the other services.
otherVars == <<auditVars, rbacVars, limiterVars, gatewayVars, restVars>>

Stage == (\E p \in callers : Core_stage(p)) /\ UNCHANGED otherVars
CommitBegin ==
    (\E p \in callers : Core_commit_begin(p)) /\ UNCHANGED otherVars
CommitFinish ==
    (\E p \in callers : Core_commit_finish(p)) /\ UNCHANGED otherVars
MarkBad == (\E p \in callers : Core_mark_bad(p)) /\ UNCHANGED otherVars
Rollback == (\E p \in callers : Core_rollback(p)) /\ UNCHANGED otherVars

Next ==
    \/ Stage
    \/ CommitBegin
    \/ CommitFinish
    \/ MarkBad
    \/ Rollback

----------------------------------------------------------------------------
(* services/audit-log/src/main.rs: the audit log.                          *)

\* record_event is not called once the file holds this many records.
MaxRecords == 3
\* Number of distinct IncomingEvent bodies.
NumEvents == 2
\* Number of record_event requests that may be in flight together.
NumAuditRequests == 2
\* Utc::now() yields one of the instants 1..MaxClock.
MaxClock == 2

Events == {<<"event", i>> : i \in 1..NumEvents}
Timestamps == 1..MaxClock
AuditRequests == 1..NumAuditRequests

\* vec![0u8; 32]
ZeroHash == <<"zero32">>

\* Sha256 over the two updates: the digest of a pair of inputs, distinct
\* pairs having distinct digests.
Sha256(first, second) == <<"sha256", first, second>>

\* serde_json::to_vec(&event)
to_vec(event) == <<"json", event>>

\* STANDARD.encode and STANDARD.decode of base64.
encode(bytes) == <<"base64", bytes>>
decode(text) == text[2]

\* append whose digest leaves the event out.
append_hash_skips_event(prev_hash, event) == Sha256(prev_hash, <<>>)

\* The hasher of append: prev_hash, then the serialized event.
append_hash(prev_hash, event) == Sha256(prev_hash, to_vec(event))

\* The file holds serialized AuditRecords and b"\n" bytes.
Newline == [kind |-> "newline"]
AuditRecord(timestamp, prev_hash, hash, event) ==
    [ kind |-> "record", timestamp |-> timestamp,
      prev_hash |-> encode(prev_hash), hash |-> encode(hash),
      event |-> event ]

\* contents.split(|b| *b == b'\n').filter(|line| !line.is_empty()), `line`
\* being the line read so far.
RECURSIVE split(_, _)
split(contents, line) ==
    LET done == IF Len(line) = 0 THEN <<>> ELSE <<line>> IN
    IF Len(contents) = 0 THEN done
    ELSE IF Head(contents).kind = "newline"
    THEN done \o split(Tail(contents), <<>>)
    ELSE split(Tail(contents), Append(line, Head(contents)))

\* serde_json::from_slice::<AuditRecord>(line) succeeds on a line that is
\* one serialized record and nothing else.
from_slice_ok(line) == Len(line) = 1

\* AuditWriter::hydrate_prev_hash: Ok(prev) or Err(Malformed).
hydrate_prev_hash(contents) ==
    LET lines == split(contents, <<>>) IN
    IF Len(contents) = 0 THEN [err |-> "None", prev |-> ZeroHash]
    ELSE IF \E i \in 1..Len(lines) : ~from_slice_ok(lines[i])
    THEN [err |-> "Malformed", prev |-> ZeroHash]
    ELSE IF Len(lines) = 0 THEN [err |-> "None", prev |-> ZeroHash]
    ELSE [err |-> "None", prev |-> decode(lines[Len(lines)][1].hash)]

\* AuditWriter::read_all: Ok(records) or Err(Malformed).
read_all(contents) ==
    LET lines == split(contents, <<>>) IN
    IF \E i \in 1..Len(lines) : ~from_slice_ok(lines[i])
    THEN [err |-> "Malformed", records |-> <<>>]
    ELSE [err |-> "None", records |-> [i \in 1..Len(lines) |-> lines[i][1]]]

\* The serialized records in the file, in file order.
RecordsIn(contents) == SelectSeq(contents, LAMBDA b : b.kind = "record")

\* main: AuditWriter::new; when hydration fails main returns the error and
\* the process does not serve.
AuditWriter_new(contents) ==
    LET h == hydrate_prev_hash(contents) IN
    [up |-> h.err = "None", prev_hash |-> h.prev]

AuditIdle == [pc |-> "idle", event |-> <<>>, hash |-> ZeroHash]

InitAudit ==
    /\ log_file = <<>>
    /\ writer = AuditWriter_new(log_file)
    /\ writer_lock = 0
    /\ record_event = [q \in AuditRequests |-> AuditIdle]

\* record_event up to `state.writer.lock().await`: a request with an event
\* takes the mutex.
RecordEvent_lock(q) ==
    /\ writer.up
    /\ record_event[q].pc = "idle"
    /\ writer_lock = 0
    /\ Len(RecordsIn(log_file)) < MaxRecords
    /\ \E event \in Events :
          record_event' = [record_event EXCEPT ![q] =
                              [pc |-> "append", event |-> event,
                               hash |-> ZeroHash]]
    /\ writer_lock' = q
    /\ UNCHANGED <<log_file, writer>>

\* append up to the write of the record: the hash over prev_hash and the
\* event, the open in append mode and the first write_all.  An error of the
\* open or of the write returns Err(Io) and drops the guard.
Append_record(q) ==
    /\ writer_lock = q
    /\ record_event[q].pc = "append"
    /\ LET event == record_event[q].event
           hash == append_hash(writer.prev_hash, event)
       IN \E timestamp \in Timestamps, io \in {"ok", "open fails", "write fails"} :
            IF io = "ok"
            THEN /\ log_file' = Append(log_file,
                                   AuditRecord(timestamp, writer.prev_hash,
                                               hash, event))
                 /\ record_event' = [record_event EXCEPT ![q] =
                                        [pc |-> "newline", event |-> event,
                                         hash |-> hash]]
                 /\ UNCHANGED writer_lock
            ELSE /\ record_event' = [record_event EXCEPT ![q] = AuditIdle]
                 /\ writer_lock' = 0
                 /\ UNCHANGED log_file
    /\ UNCHANGED writer

\* append from the write of b"\n" on: when it succeeds prev_hash becomes the
\* hash and the request returns 202; when it fails the request returns
\* Err(Io) with prev_hash as it was.  Either way the guard is dropped.
Append_newline(q) ==
    /\ writer_lock = q
    /\ record_event[q].pc = "newline"
    /\ \E io \in {"ok", "write fails"} :
          IF io = "ok"
          THEN /\ log_file' = Append(log_file, Newline)
               /\ writer' = [writer EXCEPT !.prev_hash = record_event[q].hash]
          ELSE UNCHANGED <<log_file, writer>>
    /\ record_event' = [record_event EXCEPT ![q] = AuditIdle]
    /\ writer_lock' = 0

\* The process is restarted while no request is being served: main builds a
\* new AuditWriter from the file.
Audit_restart ==
    /\ writer_lock = 0
    /\ writer' = AuditWriter_new(log_file)
    /\ record_event' = [q \in AuditRequests |-> AuditIdle]
    /\ UNCHANGED <<log_file, writer_lock>>

\* The audit log shares no state with the other services.
notAuditVars == <<updaterVars, rbacVars, limiterVars, gatewayVars, restVars>>

RecordEventLock ==
    (\E q \in AuditRequests : RecordEvent_lock(q)) /\ UNCHANGED notAuditVars
AppendRecord ==
    (\E q \in AuditRequests : Append_record(q)) /\ UNCHANGED notAuditVars
AppendNewline ==
    (\E q \in AuditRequests : Append_newline(q)) /\ UNCHANGED notAuditVars
AuditRestart == Audit_restart /\ UNCHANGED notAuditVars

NextAudit ==
    \/ RecordEventLock
    \/ AppendRecord
    \/ AppendNewline
    \/ AuditRestart

----------------------------------------------------------------------------
(* services/api-gateway/src/rbac.rs: the RBAC policy.                      *)

\* A loaded policy holds at most this many rules.
NumRules == 2
\* The inherits lists of a policy file name at most this many parents in all.
MaxInherits == 2

Role == {"Owner", "Admin", "Member", "Guest"}
Methods == {"GET", "POST"}

\* Option<String>::None for audit_action.
NoAction == <<>>
Decision(allowed, audit_action) ==
    [allowed |-> allowed, audit_action |-> audit_action]

\* Paths and patterns are strings, modelled as sequences of characters.
Paths == {<<"a">>, <<"a", "b">>, <<"b">>}
Patterns == {<<"a", "b">>, <<"a", "*">>}

\* RoutePattern::matches
pattern_matches(pattern, path) ==
    IF Len(pattern) > 0 /\ pattern[Len(pattern)] = "*"
    THEN LET prefix == SubSeq(pattern, 1, Len(pattern) - 1) IN
         /\ Len(path) >= Len(prefix)
         /\ SubSeq(path, 1, Len(prefix)) = prefix
    ELSE pattern = path

\* RouteRule::matches
rule_matches(rule, method, path) ==
    method \in rule.methods /\ pattern_matches(rule.pattern, path)

\* The parents of a role, in the order the HashSet iterates them.
RECURSIVE parents_in_order(_)
parents_in_order(parents) ==
    IF parents = {} THEN <<>>
    ELSE LET parent == CHOOSE r \in parents : TRUE IN
         <<parent>> \o parents_in_order(parents \ {parent})

\* expand_roles that takes the role and its own parents only.
expand_roles_parents_only(inherit, visited, stack) ==
    {stack[i] : i \in 1..Len(stack)}
        \cup UNION {inherit[stack[i]] : i \in 1..Len(stack)}

\* expand_roles with a loop that ends at the first role met again.
RECURSIVE expand_roles_until_revisit(_, _, _)
expand_roles_until_revisit(inherit, visited, stack) ==
    IF Len(stack) = 0 THEN visited
    ELSE LET current == stack[Len(stack)]
             popped == SubSeq(stack, 1, Len(stack) - 1)
         IN IF current \notin visited
            THEN expand_roles_until_revisit(inherit, visited \cup {current},
                              popped \o parents_in_order(inherit[current]))
            ELSE visited

\* RbacPolicy::expand_roles: the loop over the stack, from the values of
\* `visited` and `stack` to the set returned.
RECURSIVE expand_roles(_, _, _)
expand_roles(inherit, visited, stack) ==
    IF Len(stack) = 0 THEN visited
    ELSE LET current == stack[Len(stack)]
             popped == SubSeq(stack, 1, Len(stack) - 1)
         IN IF current \notin visited
            THEN expand_roles(inherit, visited \cup {current},
                              popped \o parents_in_order(inherit[current]))
            ELSE expand_roles(inherit, visited, popped)

\* The number of times the loop of expand_roles pops the stack.
RECURSIVE expand_roles_pops(_, _, _)
expand_roles_pops(inherit, visited, stack) ==
    IF Len(stack) = 0 THEN 0
    ELSE LET current == stack[Len(stack)]
             popped == SubSeq(stack, 1, Len(stack) - 1)
         IN 1 + IF current \notin visited
                THEN expand_roles_pops(inherit, visited \cup {current},
                              popped \o parents_in_order(inherit[current]))
                ELSE expand_roles_pops(inherit, visited, popped)

\* authorize that allows every request.
authorize_everyone(p, role, method, path) == Decision(TRUE, NoAction)

\* authorize that lets the last matching rule decide.
authorize_last_match(p, role, method, path) ==
    LET effective_roles == expand_roles(p.inherit, {}, <<role>>)
        matching == {i \in 1..Len(p.rules) :
                        rule_matches(p.rules[i], method, path)}
    IN IF matching = {} THEN Decision(FALSE, NoAction)
       ELSE LET rule == p.rules[CHOOSE i \in matching :
                                   \A j \in matching : j <= i]
            IN Decision(rule.roles \cap effective_roles # {},
                        rule.audit_action)

\* The loop of authorize from rule i on.
RECURSIVE authorize_from(_, _, _, _, _)
authorize_from(p, effective_roles, method, path, i) ==
    IF i > Len(p.rules) THEN Decision(FALSE, NoAction)
    ELSE IF rule_matches(p.rules[i], method, path)
    THEN Decision(\E r \in p.rules[i].roles : r \in effective_roles,
                  p.rules[i].audit_action)
    ELSE authorize_from(p, effective_roles, method, path, i + 1)

\* RbacPolicy::authorize
authorize(p, role, method, path) ==
    authorize_from(p, expand_roles(p.inherit, {}, <<role>>), method, path, 1)

\* The policies authorize is run on.  A rule's audit_action, when present,
\* names the rule's pattern.
Rules ==
    [ pattern : Patterns,
      methods : {{"GET"}, {"GET", "POST"}},
      roles : {{}, {"Guest"}, {"Member", "Admin"}},
      audit_action : {NoAction, <<"action">>} ]

RuleLists(n) == UNION {[1..k -> Rules] : k \in 0..n}

\* The inherit maps with at most n parents named in all; a role the file
\* does not list has no parents.
InheritMaps(n) ==
    { [r \in Role |-> {e[2] : e \in {x \in edges : x[1] = r}}]
        : edges \in {es \in SUBSET (Role \X Role) : Cardinality(es) <= n} }

\* The policy of the test deny_by_default.
ChainInherit ==
    [r \in Role |-> CASE r = "Owner" -> {"Admin"}
                      [] r = "Admin" -> {"Member"}
                      [] r = "Member" -> {"Guest"}
                      [] r = "Guest" -> {}]
ChainPolicy ==
    [ rules |-> << [pattern |-> <<"a">>, methods |-> {"GET"},
                    roles |-> {"Guest"}, audit_action |-> NoAction],
                   [pattern |-> <<"a", "b">>, methods |-> {"GET"},
                    roles |-> {"Member"}, audit_action |-> NoAction] >>,
      inherit |-> ChainInherit ]

Policies ==
    [rules : RuleLists(NumRules), inherit : {ChainInherit}]
        \cup [rules : RuleLists(1), inherit : InheritMaps(MaxInherits)]

\* No call of authorize has returned yet.
Undecided == [decided |-> FALSE, decision |-> Decision(FALSE, NoAction)]

\* The gateway as built, before any request: the policy file is loaded.
InitRbac ==
    /\ policy = ChainPolicy
    /\ authz = [role |-> "Guest", method |-> "GET", path |-> <<"a">>,
                returned |-> Undecided]

\* A policy and the arguments of one authorize call.
InitAuthorize ==
    /\ policy \in Policies
    /\ authz \in [role : Role, method : Methods, path : Paths,
                  returned : {Undecided}]

\* The call of authorize.
Authorize ==
    /\ ~authz.returned.decided
    /\ authz' = [authz EXCEPT !.returned =
                    [decided |-> TRUE,
                     decision |-> authorize(policy, authz.role, authz.method,
                                            authz.path)]]
    /\ UNCHANGED policy
    /\ UNCHANGED <<updaterVars, auditVars, limiterVars, gatewayVars, restVars>>

NextRbac == Authorize

----------------------------------------------------------------------------
(* services/api-gateway/src/rate_limit.rs: the token bucket.  Instants and *)
(* durations are counted in ticks, and the f64 token counts in units of    *)
(* 1/TokenUnit token, in which every sum and product of check is exact.    *)

\* The clock is not read beyond this tick.
MaxTime == 4
\* check() is not called more often than this.
MaxChecks == 4
\* Ticks of the clock in one second.
TicksPerSecond == 2
\* The 60.0 of rate_per_second.
SecondsPerMinute == 60

\* One token.
TokenUnit == SecondsPerMinute * TicksPerSecond

\* RateLimitSettings the limiter is built with.
Settings == [requests_per_minute : {0, 60, 120}, burst : {0, 1, 2}]

Max(a, b) == IF a >= b THEN a ELSE b
Min(a, b) == IF a <= b THEN a ELSE b

\* RateLimiter::new at instant t.  rate is the tokens gained per tick:
\* max(rpm, 1) / 60 tokens per second.
RateLimiter_new(settings, t) ==
    LET capacity == Max(settings.burst, 1) * TokenUnit
        rate_per_second ==
            (Max(settings.requests_per_minute, 1) * TokenUnit)
                \div SecondsPerMinute
    IN [ capacity |-> capacity,
         rate |-> rate_per_second \div TicksPerSecond,
         state |-> [tokens |-> capacity, last_refill |-> t] ]

\* retry_after: Duration::from_secs(1), as the Retry-After header prints it.
RetryAfterSecs == 1

\* check that refills without the bound of capacity.
check_refills_unbounded(l, t) ==
    LET elapsed == Max(t - l.state.last_refill, 0)
        refilled == IF elapsed > 0
                    THEN [tokens |-> l.state.tokens + elapsed * l.rate,
                          last_refill |-> t]
                    ELSE l.state
    IN IF refilled.tokens >= TokenUnit
       THEN [ limiter |-> [l EXCEPT !.state =
                              [refilled EXCEPT !.tokens = @ - TokenUnit]],
              ok |-> TRUE, retry_after |-> 0, found |-> refilled.tokens ]
       ELSE [ limiter |-> [l EXCEPT !.state = refilled],
              ok |-> FALSE, retry_after |-> RetryAfterSecs,
              found |-> refilled.tokens ]

\* check that moves last_refill without adding the tokens.
check_never_refills(l, t) ==
    LET refilled == [tokens |-> l.state.tokens, last_refill |-> t]
    IN IF refilled.tokens >= TokenUnit
       THEN [ limiter |-> [l EXCEPT !.state =
                              [refilled EXCEPT !.tokens = @ - TokenUnit]],
              ok |-> TRUE, retry_after |-> 0, found |-> refilled.tokens ]
       ELSE [ limiter |-> [l EXCEPT !.state = refilled],
              ok |-> FALSE, retry_after |-> RetryAfterSecs,
              found |-> refilled.tokens ]

\* RateLimiter::check with the mutex held, at instant t: the limiter after
\* the call, Ok or Err(RateLimited{retry_after}), and the tokens the call
\* found after refilling.
check(l, t) ==
    LET elapsed == Max(t - l.state.last_refill, 0)
        refilled == IF elapsed > 0
                    THEN [tokens |-> Min(l.state.tokens + elapsed * l.rate,
                                         l.capacity),
                          last_refill |-> t]
                    ELSE l.state
    IN IF refilled.tokens >= TokenUnit
       THEN [ limiter |-> [l EXCEPT !.state =
                              [refilled EXCEPT !.tokens = @ - TokenUnit]],
              ok |-> TRUE, retry_after |-> 0, found |-> refilled.tokens ]
       ELSE [ limiter |-> [l EXCEPT !.state = refilled],
              ok |-> FALSE, retry_after |-> RetryAfterSecs,
              found |-> refilled.tokens ]

\* The gateway as built: the limiter of the test refills_over_time.
InitLimiter ==
    /\ now = 0
    /\ limiter = RateLimiter_new([requests_per_minute |-> 60, burst |-> 1], now)
    /\ checks = <<>>

\* A limiter built with any of the settings.
InitSettings ==
    /\ now = 0
    /\ limiter \in {RateLimiter_new(settings, now) : settings \in Settings}
    /\ checks = <<>>

\* A caller runs check(): the mutex is held from the read of the clock to
\* the return, so concurrent calls take effect one after the other.
Limiter_check ==
    /\ Len(checks) < MaxChecks
    /\ LET r == check(limiter, now) IN
       /\ limiter' = r.limiter
       /\ checks' = Append(checks, [ time |-> now, ok |-> r.ok,
                                     retry_after |-> r.retry_after,
                                     full |-> r.found = limiter.capacity ])
    /\ UNCHANGED now

\* Time passes.
Limiter_tick ==
    /\ now < MaxTime
    /\ now' = now + 1
    /\ UNCHANGED <<limiter, checks>>

notLimiterVars == <<updaterVars, auditVars, rbacVars, gatewayVars, restVars>>

Check == Limiter_check /\ UNCHANGED notLimiterVars
Tick == Limiter_tick /\ UNCHANGED notLimiterVars

NextLimiter ==
    \/ Check
    \/ Tick

----------------------------------------------------------------------------
(* services/api-gateway/src/lib.rs and audit.rs: the protected routes.     *)
(* build_router adds rate_limit_guard as a layer first and rbac_guard      *)
(* second; a layer added later wraps the ones added before it, so a        *)
(* request enters rbac_guard, whose next.run enters rate_limit_guard,      *)
(* whose next.run enters the handler.                                      *)

\* Number of requests in flight together.
NumGatewayRequests == 2

GatewayRequests == 1..NumGatewayRequests

\* The paths that have a protected route; the guards are layers of these
\* routes only.
RoutePaths == {<<"a">>, <<"a", "b">>}

\* Values of the x-lokan-role header; "none" is a request without it.
RoleHeaders == {"Member", "guest", "none"}

\* str::to_lowercase on the header values.
to_lowercase(text) ==
    CASE text = "Member" -> "member"
      [] OTHER -> text

\* Role::from_str followed by extract_role's unwrap_or(Role::Guest).
extract_role(header) ==
    CASE to_lowercase(header) = "owner" -> "Owner"
      [] to_lowercase(header) = "admin" -> "Admin"
      [] to_lowercase(header) = "member" -> "Member"
      [] to_lowercase(header) = "guest" -> "Guest"
      [] OTHER -> "Guest"

\* AuditClient::new
AuditClient_new(endpoint, enabled) ==
    [ endpoint |-> IF enabled /\ endpoint # "" THEN endpoint ELSE "None",
      enabled |-> enabled ]

\* AuditEvent::new
AuditEvent_new(role, action, resource, outcome) ==
    [role |-> role, action |-> action, resource |-> resource,
     outcome |-> outcome]

\* with_outcome that leaves the outcome as it was.
with_outcome_kept(event, outcome) == event

\* AuditEvent::with_outcome
with_outcome(event, outcome) == [event EXCEPT !.outcome = outcome]

\* AuditClient::record: what becomes of the event handed to it.
record(client, event) ==
    [ event |-> event,
      delivery |-> IF ~client.enabled THEN "dropped"
                   ELSE IF client.endpoint # "None" THEN "posted"
                   ELSE "logged" ]

\* ApiError::into_response: the status of the errors the guards return.
StatusForbidden == 403
StatusTooManyRequests == 429
\* The statuses a handler responds with.
HandlerStatuses == {200, 502}

NoEvent == AuditEvent_new("Guest", <<>>, <<>>, "none")

NewRequest ==
    [ pc |-> "new", event |-> NoEvent, allowed |-> FALSE,
      throttled |-> FALSE, steps |-> <<>>, emitted |-> <<>>,
      status |-> 0, retry_after |-> 0 ]

\* The client of AuditConfig::default: enabled, with an endpoint.
InitGateway ==
    /\ audit_client = AuditClient_new("http://audit", TRUE)
    /\ requests = [q \in GatewayRequests |-> NewRequest]

\* No request is under way.
InitNoRequests ==
    /\ audit_client = AuditClient_new("", FALSE)
    /\ requests = [q \in GatewayRequests |-> NewRequest]

\* rbac_guard up to its return of Forbidden, or to next.run.
Gateway_rbac(q) ==
    /\ requests[q].pc = "new"
    /\ \E header \in RoleHeaders, method \in Methods, path \in RoutePaths :
          LET role == extract_role(header)
              decision == authorize(policy, role, method, path)
              action == IF decision.audit_action = NoAction
                        THEN <<method>> \o path
                        ELSE decision.audit_action
              event == AuditEvent_new(role, action, path, "deny")
          IN IF ~decision.allowed
             THEN requests' = [requests EXCEPT ![q] =
                    [@ EXCEPT !.pc = "done",
                              !.event = event,
                              !.steps = <<"authorize", "audit">>,
                              !.emitted = <<record(audit_client, event)>>,
                              !.status = StatusForbidden]]
             ELSE requests' = [requests EXCEPT ![q] =
                    [@ EXCEPT !.pc = "rate_limit",
                              !.event = event,
                              !.allowed = TRUE,
                              !.steps = <<"authorize">>]]
    /\ UNCHANGED <<audit_client, limiterVars>>

\* rate_limit_guard up to its return of RateLimited, or to next.run.
Gateway_rate_limit(q) ==
    /\ requests[q].pc = "rate_limit"
    /\ LET r == check(limiter, now)
           event == AuditEvent_new(requests[q].event.role,
                                   <<"rate_limit.check">>,
                                   requests[q].event.resource, "throttle")
       IN /\ limiter' = r.limiter
          /\ IF ~r.ok
             THEN requests' = [requests EXCEPT ![q] =
                    [@ EXCEPT !.pc = "allow",
                              !.throttled = TRUE,
                              !.steps = @ \o <<"check", "audit">>,
                              !.emitted = Append(@, record(audit_client, event)),
                              !.status = StatusTooManyRequests,
                              !.retry_after = r.retry_after]]
             ELSE requests' = [requests EXCEPT ![q] =
                    [@ EXCEPT !.pc = "handler",
                              !.steps = Append(@, "check")]]
    /\ UNCHANGED <<audit_client, now, checks>>

\* The handler of the route runs and responds.
Gateway_handler(q) ==
    /\ requests[q].pc = "handler"
    /\ \E status \in HandlerStatuses :
          requests' = [requests EXCEPT ![q] =
             [@ EXCEPT !.pc = "allow",
                       !.steps = Append(@, "handler"),
                       !.status = status]]
    /\ UNCHANGED <<audit_client, limiterVars>>

\* rbac_guard after next.run has returned a response: the event gets the
\* outcome allow and is recorded, and the response is passed on.
Gateway_allow(q) ==
    /\ requests[q].pc = "allow"
    /\ requests' = [requests EXCEPT ![q] =
          [@ EXCEPT !.pc = "done",
                    !.steps = Append(@, "audit"),
                    !.emitted = Append(@, record(audit_client,
                                    with_outcome(requests[q].event, "allow")))]]
    /\ UNCHANGED <<audit_client, limiterVars>>

notGatewayVars == <<updaterVars, auditVars, rbacVars, restVars>>

RbacGuard ==
    (\E q \in GatewayRequests : Gateway_rbac(q)) /\ UNCHANGED notGatewayVars
RateLimitGuard ==
    (\E q \in GatewayRequests : Gateway_rate_limit(q))
        /\ UNCHANGED notGatewayVars
Handler ==
    (\E q \in GatewayRequests : Gateway_handler(q)) /\ UNCHANGED notGatewayVars
RbacGuardAllow ==
    (\E q \in GatewayRequests : Gateway_allow(q)) /\ UNCHANGED notGatewayVars

NextGateway ==
    \/ RbacGuard
    \/ RateLimitGuard
    \/ Handler
    \/ RbacGuardAllow
    \/ Tick

----------------------------------------------------------------------------
(* services/rule-engine/src/main.rs: the rule engine.  The model's u64     *)
(* holds 0..u64_MAX.  run_scheduler holds the write lock of the registry   *)
(* for the whole of a tick, and delete_rule drops the trace slot under     *)
(* that lock, so a tick is one step; create_rule runs init_trace_slot      *)
(* before it takes the lock, so it is two.                                 *)

\* run_scheduler is not stepped once it has run this many ticks.
MaxTicks == 5
\* create_rule is not called once it has been called this many times.
MaxCreates == 3

u64_MAX == 15
TICK_INTERVAL_MS == 500
MsPerSecond == 1000
MAX_TRACE_ENTRIES == 100

RuleIds == {"r1", "r2"}

\* Trigger::Interval { seconds } and Trigger::Event.
Triggers ==
    {[type |-> "interval", seconds |-> s] : s \in {0, 2}}
        \cup {[type |-> "event", seconds |-> 0]}

\* serde_json values: numbers, strings and null.
JsonNumber(n) == [json |-> "number", value |-> n]
JsonString(n) == [json |-> "string", value |-> n]
JsonNull == [json |-> "null", value |-> 0]

\* The condition list of the rules registered: one comparison of the tick
\* of the context with a literal.
ConditionLists ==
    { << [type |-> "greater_than",
          left |-> [kind |-> "context", path |-> "tick", value |-> JsonNull],
          right |-> [kind |-> "literal", path |-> "", value |-> JsonNumber(1)]] >> }

RuleDefinitions ==
    [id : RuleIds, trigger : Triggers, conditions : ConditionLists]

\* ValueRef::resolve on the context {now, tick} the scheduler builds.
resolve(ref, context) ==
    IF ref.kind = "literal" THEN ref.value
    ELSE IF ref.path \in DOMAIN context THEN context[ref.path]
    ELSE JsonNull

\* Condition::evaluate: TRUE for ConditionState::Matched.
Condition_evaluate(condition, context) ==
    LET l == resolve(condition.left, context)
        r == resolve(condition.right, context)
    IN CASE condition.type = "equals" -> l = r
         [] condition.type = "greater_than" ->
               l.json = "number" /\ r.json = "number" /\ l.value > r.value
         [] condition.type = "less_than" ->
               l.json = "number" /\ r.json = "number" /\ l.value < r.value

\* evaluate_rule: the conditions are evaluated in order up to the first
\* that fails; the trace lists the outcome of each one evaluated.
evaluate_rule(rule, context) ==
    LET failing == {i \in 1..Len(rule.conditions) :
                       ~Condition_evaluate(rule.conditions[i], context)}
        stop == IF failing = {} THEN Len(rule.conditions)
                ELSE CHOOSE i \in failing : \A j \in failing : i <= j
    IN [ fired |-> failing = {},
         trace |-> [i \in 1..stop |-> IF i \in failing THEN "failed"
                                                      ELSE "matched"] ]

\* ScheduleState::new.  The sum current_tick + interval_ticks is a plain
\* u64 addition: on overflow it panics in a build with overflow checks
\* and wraps in one without.
ScheduleState_new(trigger, current_tick, overflow_checks) ==
    IF trigger.type = "interval"
    THEN LET secs == Max(trigger.seconds, 1)
             interval_ms == secs * MsPerSecond
             interval_ticks ==
                 Max((interval_ms + TICK_INTERVAL_MS - 1) \div TICK_INTERVAL_MS, 1)
             sum == current_tick + interval_ticks
         IN [ panic |-> sum > u64_MAX /\ overflow_checks,
              next_tick |-> sum % (u64_MAX + 1),
              interval_ticks |-> interval_ticks ]
    ELSE [ panic |-> FALSE, next_tick |-> u64_MAX, interval_ticks |-> u64_MAX ]

\* ScheduleState::should_fire
should_fire(schedule, tick) == tick >= schedule.next_tick

\* advance that adds without saturation.
advance_wrapping(schedule) ==
    [schedule EXCEPT !.next_tick = (@ + schedule.interval_ticks) % (u64_MAX + 1)]

\* ScheduleState::advance
advance(schedule) ==
    IF schedule.interval_ticks = u64_MAX
    THEN [schedule EXCEPT !.next_tick = u64_MAX]
    ELSE [schedule EXCEPT !.next_tick = Min(@ + schedule.interval_ticks, u64_MAX)]

\* record_trace that evicts nothing.
record_trace_unbounded(deques, rule_id, entry) ==
    [id \in DOMAIN deques \cup {rule_id} |->
        IF id # rule_id THEN deques[id]
        ELSE IF rule_id \in DOMAIN deques THEN Append(deques[id], entry)
        ELSE <<entry>>]

\* AppState::record_trace
record_trace(deques, rule_id, entry) ==
    LET deque == IF rule_id \in DOMAIN deques THEN deques[rule_id] ELSE <<>>
        popped == IF Len(deque) = MAX_TRACE_ENTRIES THEN Tail(deque) ELSE deque
    IN [id \in DOMAIN deques \cup {rule_id} |->
           IF id = rule_id THEN Append(popped, entry) ELSE deques[id]]

\* AppState::traces_for, with rule_trace's unwrap_or_default.
traces_for(deques, rule_id) ==
    IF rule_id \in DOMAIN deques
    THEN [i \in 1..Len(deques[rule_id]) |->
             deques[rule_id][Len(deques[rule_id]) + 1 - i]]
    ELSE <<>>

NoPayload == [id |-> "", trigger |-> [type |-> "event", seconds |-> 0],
              conditions |-> <<>>]
NoExecutions == [status |-> 0, rule_id |-> "", executions |-> <<>>]

\* The engine as main starts it.  The scheduler's tick starts at 0; a
\* scheduler that has run for long has a tick near u64_MAX, with whatever
\* rules were registered since deleted again.
InitEngine ==
    /\ rules = <<>>
    /\ traces = <<>>
    /\ scheduler \in [tick : {0, u64_MAX - 4}, now : {0},
                      overflow_checks : BOOLEAN]
    /\ evaluated = <<>>
    /\ rule_calls = [creating |-> NoPayload, creates |-> 0,
                     created |-> "none", trace |-> NoExecutions]

\* The engine just started, in a build without overflow checks.
InitEngineIdle ==
    /\ rules = <<>>
    /\ traces = <<>>
    /\ scheduler = [tick |-> 0, now |-> 0, overflow_checks |-> FALSE]
    /\ evaluated = <<>>
    /\ rule_calls = [creating |-> NoPayload, creates |-> 0,
                     created |-> "none", trace |-> NoExecutions]

\* The engine after create_rule has registered rule r1 in an empty
\* registry.
InitTraces ==
    /\ rules = [id \in {"r1"} |->
          LET definition == [id |-> "r1",
                             trigger |-> [type |-> "interval", seconds |-> 2],
                             conditions |-> CHOOSE c \in ConditionLists : TRUE]
              new == ScheduleState_new(definition.trigger, 0, FALSE)
          IN [ definition |-> definition,
               schedule |-> [next_tick |-> new.next_tick,
                             interval_ticks |-> new.interval_ticks] ]]
    /\ traces = [id \in {"r1"} |-> <<>>]
    /\ scheduler = [tick |-> 0, now |-> 0, overflow_checks |-> FALSE]
    /\ evaluated = <<>>
    /\ rule_calls = [creating |-> NoPayload, creates |-> 1,
                     created |-> "ok", trace |-> NoExecutions]

\* create_rule up to init_trace_slot.
Engine_create_rule_init ==
    /\ rule_calls.creating = NoPayload
    /\ rule_calls.creates < MaxCreates
    /\ \E payload \in RuleDefinitions :
          /\ traces' = [id \in DOMAIN traces \cup {payload.id} |->
                           IF id \in DOMAIN traces THEN traces[id] ELSE <<>>]
          /\ rule_calls' = [rule_calls EXCEPT !.creating = payload,
                                           !.creates = @ + 1]
    /\ UNCHANGED <<rules, scheduler, evaluated>>

\* create_rule under the write lock of the registry.
Engine_create_rule_insert ==
    /\ rule_calls.creating # NoPayload
    /\ LET payload == rule_calls.creating
           next_ticks == {rules[id].schedule.next_tick : id \in DOMAIN rules}
           ticks == IF next_ticks = {} THEN 0
                    ELSE CHOOSE n \in next_ticks : \A k \in next_ticks : k <= n
           new == ScheduleState_new(payload.trigger, ticks,
                                    scheduler.overflow_checks)
       IN IF new.panic
          THEN /\ rule_calls' = [rule_calls EXCEPT !.creating = NoPayload,
                                                   !.created = "panic"]
               /\ UNCHANGED rules
          ELSE /\ rule_calls' = [rule_calls EXCEPT !.creating = NoPayload,
                                                   !.created = "ok"]
               /\ rules' = [id \in DOMAIN rules \cup {payload.id} |->
                     IF id = payload.id
                     THEN [ definition |-> payload,
                            schedule |-> [next_tick |-> new.next_tick,
                                          interval_ticks |-> new.interval_ticks] ]
                     ELSE rules[id]]
    /\ UNCHANGED <<traces, scheduler, evaluated>>

\* delete_rule of a registered rule; of another id it answers NotFound.
Engine_delete_rule ==
    /\ \E id \in DOMAIN rules :
          /\ rules' = [k \in DOMAIN rules \ {id} |-> rules[k]]
          /\ traces' = [k \in DOMAIN traces \ {id} |-> traces[k]]
    /\ UNCHANGED <<scheduler, evaluated, rule_calls>>

\* One iteration of run_scheduler's loop.
Engine_tick ==
    /\ scheduler.now < MaxTicks
    /\ LET tick == (scheduler.tick + 1) % (u64_MAX + 1)
           utc_now == scheduler.now + 1
           context == [now |-> JsonString(utc_now), tick |-> JsonNumber(tick)]
           due == {id \in DOMAIN rules : should_fire(rules[id].schedule, tick)}
           entry(id) ==
               LET result == evaluate_rule(rules[id].definition, context)
               IN [timestamp |-> utc_now, fired |-> result.fired,
                   trace |-> result.trace]
           recorded(id) == record_trace(traces, id, entry(id))[id]
       IN /\ scheduler' = [scheduler EXCEPT !.tick = tick, !.now = utc_now]
          /\ rules' = [id \in DOMAIN rules |->
                IF id \in due
                THEN [rules[id] EXCEPT !.schedule = advance(@)]
                ELSE rules[id]]
          /\ traces' = [id \in DOMAIN traces \cup due |->
                IF id \in due THEN recorded(id) ELSE traces[id]]
          /\ evaluated' = [id \in DOMAIN rules |-> IF id \in due THEN 1 ELSE 0]
    /\ UNCHANGED rule_calls

\* The part of run_scheduler's loop for one due rule, as far as the trace
\* buffers go: its evaluation is recorded with the time read.
Engine_record_trace ==
    /\ scheduler.now < MAX_TRACE_ENTRIES + MaxTicks
    /\ \E id \in DOMAIN rules :
          LET utc_now == scheduler.now + 1
              context == [now |-> JsonString(utc_now),
                          tick |-> JsonNumber(utc_now % (u64_MAX + 1))]
              result == evaluate_rule(rules[id].definition, context)
          IN /\ traces' = record_trace(traces, id,
                    [timestamp |-> utc_now, fired |-> result.fired,
                     trace |-> result.trace])
             /\ scheduler' = [scheduler EXCEPT !.now = utc_now]
    /\ UNCHANGED <<rules, evaluated, rule_calls>>

\* rule_trace
Engine_rule_trace ==
    /\ \E rule_id \in RuleIds :
          rule_calls' = [rule_calls EXCEPT !.trace =
              IF rule_id \notin DOMAIN rules
              THEN [status |-> 404, rule_id |-> rule_id, executions |-> <<>>]
              ELSE [status |-> 200, rule_id |-> rule_id,
                    executions |-> traces_for(traces, rule_id)]]
    /\ UNCHANGED <<rules, traces, scheduler, evaluated>>

CreateRuleInit == Engine_create_rule_init /\ UNCHANGED notEngineVars
CreateRuleInsert == Engine_create_rule_insert /\ UNCHANGED notEngineVars
DeleteRule == Engine_delete_rule /\ UNCHANGED notEngineVars
SchedulerTick == Engine_tick /\ UNCHANGED notEngineVars
RuleTrace == Engine_rule_trace /\ UNCHANGED notEngineVars
RecordTrace == Engine_record_trace /\ UNCHANGED notEngineVars

NextEngine ==
    \/ CreateRuleInit
    \/ CreateRuleInsert
    \/ DeleteRule
    \/ SchedulerTick

NextTraces ==
    \/ RecordTrace
    \/ RuleTrace

----------------------------------------------------------------------------
(* services/radio-coord/src/main.rs: the radio coordinator, with its two   *)
(* Thread handlers.  A handler validates, awaits the publish on the bus    *)
(* and then updates the RadioMap under its write lock: the publish and the *)
(* update are two steps.  The fields of a request that are not modelled    *)
(* (networkName, panId, the optional keys) are valid.                      *)

\* Number of requests handled together.
NumRadioRequests == 2

RadioRequests == 1..NumRadioRequests

\* The strings of 32 hexadecimal characters among the dataset ids sent.
Hex32 == {"d1"}
DatasetIds == {"d1", "short"}
\* The u8 channels sent: 11..=26 are the Thread channels.
Channels == {10, 11, 26}
NoValue == "None"

ThreadDatasetBodies == [dataset_id : DatasetIds, channel : Channels]
ThreadChannelBodies == [dataset_id : {NoValue, "d1"}, channel : Channels]

\* ensure_thread_channel that accepts every channel.
ensure_thread_channel_any(channel) == TRUE

ensure_thread_channel(channel) == 11 <= channel /\ channel <= 26

ensure_hex32(value) == value \in Hex32

validate_thread_dataset(request) ==
    ensure_hex32(request.dataset_id) /\ ensure_thread_channel(request.channel)

validate_thread_channel(request) ==
    /\ ensure_thread_channel(request.channel)
    /\ request.dataset_id # NoValue => ensure_hex32(request.dataset_id)

\* The subject and the JSON event of each handler.
RadioEvent(kind, request) ==
    IF kind = "dataset"
    THEN [ subject |-> "radio.thread.dataset.set",
           action |-> "thread.dataset.apply",
           dataset_id |-> request.dataset_id, channel |-> request.channel ]
    ELSE [ subject |-> "radio.thread.channel.set",
           action |-> "thread.channel.update",
           dataset_id |-> request.dataset_id, channel |-> request.channel ]

NoSnapshot == [none |-> TRUE]

\* AppState::update_thread_dataset
update_thread_dataset(map, request, utc_now) ==
    [ dataset |-> [dataset_id |-> request.dataset_id,
                   channel |-> request.channel, updated_at |-> utc_now],
      channel |-> [channel |-> request.channel,
                   dataset_id |-> request.dataset_id, updated_at |-> utc_now] ]

\* AppState::update_thread_channel
update_thread_channel(map, request, utc_now) ==
    [ dataset |-> IF map.dataset = NoSnapshot THEN NoSnapshot
                  ELSE [map.dataset EXCEPT !.channel = request.channel,
                                           !.updated_at = utc_now],
      channel |-> [channel |-> request.channel,
                   dataset_id |-> request.dataset_id, updated_at |-> utc_now] ]

NewRadioRequest ==
    [pc |-> "new", kind |-> "none",
     request |-> [dataset_id |-> NoValue, channel |-> 0], status |-> 0]

\* AppState::new, and no request received.
InitRadio ==
    /\ radio_map = [dataset |-> NoSnapshot, channel |-> NoSnapshot]
    /\ radio_bus = <<>>
    /\ radio_requests = [q \in RadioRequests |-> NewRadioRequest]

\* apply_thread_dataset or update_thread_channel up to the return of
\* publish_event.
Radio_publish(q) ==
    /\ radio_requests[q].pc = "new"
    /\ \E kind \in {"dataset", "channel"} :
       \E request \in IF kind = "dataset" THEN ThreadDatasetBodies
                                          ELSE ThreadChannelBodies :
       \E publish \in {"ok", "fails"} :
          LET valid == IF kind = "dataset" THEN validate_thread_dataset(request)
                                           ELSE validate_thread_channel(request)
              received == [radio_requests[q] EXCEPT !.kind = kind,
                                                    !.request = request]
          IN IF ~valid
             THEN /\ radio_requests' = [radio_requests EXCEPT ![q] =
                        [received EXCEPT !.pc = "done", !.status = 400]]
                  /\ UNCHANGED radio_bus
             ELSE IF publish = "fails"
             THEN /\ radio_requests' = [radio_requests EXCEPT ![q] =
                        [received EXCEPT !.pc = "done", !.status = 503]]
                  /\ UNCHANGED radio_bus
             ELSE /\ radio_requests' = [radio_requests EXCEPT ![q] =
                        [received EXCEPT !.pc = "update"]]
                  /\ radio_bus' = Append(radio_bus,
                        [by |-> q, event |-> RadioEvent(kind, request)])
    /\ UNCHANGED radio_map

\* The handler after publish_event: the update of the map, and 202.
Radio_update(q) ==
    /\ radio_requests[q].pc = "update"
    /\ LET r == radio_requests[q]
           utc_now == 1 + Cardinality({p \in RadioRequests :
                                          radio_requests[p].status = 202})
       IN radio_map' = IF r.kind = "dataset"
                       THEN update_thread_dataset(radio_map, r.request, utc_now)
                       ELSE update_thread_channel(radio_map, r.request, utc_now)
    /\ radio_requests' = [radio_requests EXCEPT ![q] =
          [@ EXCEPT !.pc = "done", !.status = 202]]
    /\ UNCHANGED radio_bus

RadioPublish ==
    (\E q \in RadioRequests : Radio_publish(q)) /\ UNCHANGED notRadioVars
RadioUpdate ==
    (\E q \in RadioRequests : Radio_update(q)) /\ UNCHANGED notRadioVars

NextRadio ==
    \/ RadioPublish
    \/ RadioUpdate

----------------------------------------------------------------------------
(* services/updater/src/health.rs: HttpHealthClient::wait_for_quorum.     *)
(* Time is counted in poll intervals.  A GET that was sent is in flight    *)
(* until its answer comes, which may be at any time or never: the client   *)
(* is built by Client::builder().build(), without a timeout.               *)

\* The most endpoints a call is given, and the last instant of the clock.
MaxEndpoints == 2
MaxHealthClock == 5

PollInterval == 1
HealthDeadlines == {1, 2}

\* What one GET yields: a 2xx answer whose body says ok, a 2xx answer with
\* another body, or an Err of send() or error_for_status().
Answers == {"ok", "degraded", "error"}

HealthIdle ==
    [pc |-> "idle", endpoints |-> 0, quorum |-> 0, deadline_at |-> 0,
     next |-> 0, healthy |-> 0, wake_at |-> 0, result |-> "none"]

InitHealth ==
    /\ health = HealthIdle
    /\ health_clock = 0

\* The end of a round of polls that counted `healthy` answers.
round_end(h, healthy, instant) ==
    IF healthy >= h.quorum
    THEN [h EXCEPT !.pc = "done", !.healthy = healthy, !.result = "true"]
    ELSE IF instant >= h.deadline_at
    THEN [h EXCEPT !.pc = "done", !.healthy = healthy, !.result = "false"]
    ELSE [h EXCEPT !.pc = "sleep", !.healthy = healthy,
                   !.wake_at = instant + PollInterval]

\* wait_for_quorum up to the first GET.
Health_start ==
    /\ health.pc = "idle"
    /\ \E endpoints \in 0..MaxEndpoints, quorum \in 0..MaxEndpoints,
          deadline \in HealthDeadlines :
          health' =
             IF quorum = 0 \/ endpoints = 0
             THEN [HealthIdle EXCEPT !.pc = "done", !.endpoints = endpoints,
                                     !.quorum = quorum, !.result = "true"]
             ELSE [HealthIdle EXCEPT
                      !.pc = "get", !.endpoints = endpoints,
                      !.quorum = IF quorum < endpoints THEN quorum
                                                       ELSE endpoints,
                      !.deadline_at = health_clock + deadline,
                      !.next = 1]
    /\ UNCHANGED health_clock

\* The answer to the GET in flight comes; after the last endpoint of the
\* round the quorum and then the deadline are looked at.
Health_answer ==
    /\ health.pc = "get"
    /\ \E answer \in Answers :
          LET healthy == IF answer = "ok" THEN health.healthy + 1
                                          ELSE health.healthy
          IN health' =
                IF answer = "error"
                THEN [health EXCEPT !.pc = "done", !.result = "Err"]
                ELSE IF health.next < health.endpoints
                THEN [health EXCEPT !.next = @ + 1, !.healthy = healthy]
                ELSE round_end(health, healthy, health_clock)
    /\ UNCHANGED health_clock

\* sleep(poll_interval) is over: the next round starts.
Health_wake ==
    /\ health.pc = "sleep"
    /\ health_clock >= health.wake_at
    /\ health' = [health EXCEPT !.pc = "get", !.next = 1, !.healthy = 0]
    /\ UNCHANGED health_clock

\* Time passes, but not past the end of a sleep.
Health_time ==
    /\ health_clock < MaxHealthClock
    /\ ~(health.pc = "sleep" /\ health_clock >= health.wake_at)
    /\ health_clock' = health_clock + 1
    /\ UNCHANGED health

HealthStart == Health_start /\ UNCHANGED notHealthVars
HealthAnswer == Health_answer /\ UNCHANGED notHealthVars
HealthWake == Health_wake /\ UNCHANGED notHealthVars
HealthTime == Health_time /\ UNCHANGED notHealthVars

NextHealth ==
    \/ HealthStart
    \/ HealthAnswer
    \/ HealthWake
    \/ HealthTime

----------------------------------------------------------------------------
(* services/updater/src/store.rs: FileStateStore.  The JSON of a state is  *)
(* a sequence of tokens and write_all writes it token by token; the        *)
(* process may crash between any two steps of a save, and the file stays.  *)

\* The generations of the states saved.
MaxStoreGeneration == 1

StoreStates == [generation : 0..MaxStoreGeneration, active : Slot]

\* serde_json::to_vec_pretty of an UpdaterState.
to_vec_pretty(s) ==
    << "{",
       IF s.generation = 0 THEN "generation:0" ELSE
       IF s.generation = 1 THEN "generation:1" ELSE "generation:2",
       IF s.active = "A" THEN "active:A" ELSE "active:B",
       "}" >>

\* serde_json::from_slice: the state whose JSON the bytes are, or the
\* serde_json::Error.
from_slice(bytes) ==
    IF \E s \in StoreStates : to_vec_pretty(s) = bytes
    THEN [kind |-> "Ok",
          value |-> CHOOSE s \in StoreStates : to_vec_pretty(s) = bytes]
    ELSE [kind |-> "Parse"]

NoFile == [exists |-> FALSE, bytes |-> <<>>]

\* File::create that opens the file without truncating it.
File_create_keep(file) == [exists |-> TRUE, bytes |-> file.bytes]

\* File::create: the file is created, or truncated if it exists.
File_create(file) == [exists |-> TRUE, bytes |-> <<>>]

\* One write of write_all: the next token at the file's position.
File_write(file, position, token) ==
    [file EXCEPT !.bytes =
        IF position <= Len(file.bytes)
        THEN [file.bytes EXCEPT ![position] = token]
        ELSE Append(file.bytes, token)]

\* FileStateStore::load
FileStateStore_load(file) ==
    IF ~file.exists THEN [kind |-> "None"]
    ELSE LET parsed == from_slice(file.bytes) IN
         IF parsed.kind = "Ok" THEN [kind |-> "Some", value |-> parsed.value]
         ELSE [kind |-> "Err"]

NotLoaded == [kind |-> "none"]
NoSave == [pc |-> "idle", json |-> <<>>, position |-> 0,
           state |-> [generation |-> 0, active |-> "A"]]

\* No state file, and a process that has called nothing.
InitStore ==
    /\ state_file = NoFile
    /\ store_run = [save |-> NoSave, loaded |-> NotLoaded,
                    written |-> {}, completed |-> {}]

\* save up to File::create.
Store_save_create ==
    /\ store_run.save.pc = "idle"
    /\ \E s \in StoreStates :
          store_run' = [store_run EXCEPT !.save =
              [pc |-> "write", json |-> to_vec_pretty(s), position |-> 1,
               state |-> s]]
    /\ state_file' = File_create(state_file)

\* write_all: one more write.
Store_save_write ==
    /\ store_run.save.pc = "write"
    /\ LET sv == store_run.save
           last_one == sv.position = Len(sv.json)
       IN /\ state_file' = File_write(state_file, sv.position,
                                      sv.json[sv.position])
          /\ store_run' = [store_run EXCEPT
                !.save.position = @ + 1,
                !.save.pc = IF last_one THEN "flush" ELSE "write",
                !.written = IF last_one THEN @ \cup {sv.state} ELSE @]
\* flush, and save returns Ok(()).
Store_save_return ==
    /\ store_run.save.pc = "flush"
    /\ store_run' = [store_run EXCEPT !.save = NoSave,
                                      !.completed = @ \cup {store_run.save.state}]
    /\ UNCHANGED state_file

\* A step of save fails with an io error, or the process crashes inside
\* save and is started again: the call is over, the file stays.
Store_save_abort ==
    /\ store_run.save.pc \in {"write", "flush"}
    /\ store_run' = [store_run EXCEPT !.save = NoSave]
    /\ UNCHANGED state_file

\* load, called outside save.
Store_load ==
    /\ store_run.save.pc = "idle"
    /\ store_run' = [store_run EXCEPT !.loaded = FileStateStore_load(state_file)]
    /\ UNCHANGED state_file

SaveCreate == Store_save_create /\ UNCHANGED notStoreVars
SaveWrite == Store_save_write /\ UNCHANGED notStoreVars
SaveReturn == Store_save_return /\ UNCHANGED notStoreVars
SaveAbort == Store_save_abort /\ UNCHANGED notStoreVars
Load == Store_load /\ UNCHANGED notStoreVars

NextStore ==
    \/ SaveCreate
    \/ SaveWrite
    \/ SaveReturn
    \/ SaveAbort
    \/ Load

----------------------------------------------------------------------------
(* services/api-gateway/src/commissioning.rs: the three handlers, for one  *)
(* client that sends its next request when the last one was answered.      *)
(* Strings are sequences of characters; a base64 text is given with what   *)
(* BASE64.decode yields for it: an error, or the number of bytes.          *)

\* The number of requests the client sends.
NumCommRequests == 3

CommRequests == 1..NumCommRequests

Chars(n, c) == [i \in 1..n |-> c]
AsciiAlphanumeric ==
    {"a", "b", "c", "d", "e", "i", "v", "0", "1", "2", "3"}

LokanPrefix == <<"L", "O", "K", "A", "N", ":">>

starts_with(s, prefix) ==
    Len(s) >= Len(prefix) /\ SubSeq(s, 1, Len(prefix)) = prefix

validate_qr(qr) == Len(qr) # 0 /\ starts_with(qr, LokanPrefix)

\* validate_device_id that takes every device id.
validate_device_id_any(device_id) == TRUE

validate_device_id(device_id) ==
    /\ ~(Len(device_id) < 4 \/ Len(device_id) > 64)
    /\ \A i \in 1..Len(device_id) :
          device_id[i] \in AsciiAlphanumeric \cup {"-", "_"}

validate_nonce(nonce) ==
    /\ ~(Len(nonce) < 6 \/ Len(nonce) > 128)
    /\ \A i \in 1..Len(nonce) :
          nonce[i] \in AsciiAlphanumeric \cup {"-", "_"}

NoString == <<"None">>
DecodeError == 0 - 1

GoodDevice == <<"d", "e", "v", "-", "1">>
GoodNonce == <<"a", "b", "c", "1", "2", "3">>
GoodQr == LokanPrefix \o <<"d">>

\* The bodies sent: the ones of the commissioning flow, and ones with one
\* flaw each.
HandshakeBodies ==
    { [qr_payload |-> q, device_id |-> d, nonce |-> n] :
         <<q, d, n>> \in
            { <<GoodQr, GoodDevice, GoodNonce>>,
              <<<<"Q", "R">>, GoodDevice, GoodNonce>>,
              <<GoodQr, <<"d", "e", "v">>, GoodNonce>>,
              <<GoodQr, GoodDevice, <<"a", "!", "c", "1", "2", "3">>>> } }

CsrBodies ==
    { [device_id |-> d, csr |-> c, nonce |-> n] :
         <<d, c, n>> \in
            { <<GoodDevice, 16, GoodNonce>>,
              <<GoodDevice, 16, NoString>>,
              <<Chars(65, "d"), 16, GoodNonce>>,
              <<GoodDevice, DecodeError, GoodNonce>>,
              <<GoodDevice, 0, GoodNonce>>,
              <<GoodDevice, 16, <<"a", "b", "c">>>> } }

VerifyBodies ==
    { [device_id |-> d, signature |-> s, session |-> n] :
         <<d, s, n>> \in
            { <<GoodDevice, 32, GoodNonce>>,
              <<GoodDevice, 16, NoString>>,
              <<<<"d", "e", "v", " ", "1">>, 32, GoodNonce>>,
              <<GoodDevice, DecodeError, GoodNonce>>,
              <<GoodDevice, 15, GoodNonce>>,
              <<GoodDevice, 32, <<"a", "b", "c">>>> } }

CommBodies(kind) ==
    CASE kind = "handshake" -> HandshakeBodies
      [] kind = "csr" -> CsrBodies
      [] kind = "verify" -> VerifyBodies

\* The validation of each handler, in its order.
Comm_validate(kind, body) ==
    CASE kind = "handshake" ->
            /\ validate_qr(body.qr_payload)
            /\ validate_device_id(body.device_id)
            /\ validate_nonce(body.nonce)
      [] kind = "csr" ->
            /\ validate_device_id(body.device_id)
            /\ body.csr # DecodeError
            /\ body.csr # 0
            /\ body.nonce # NoString => validate_nonce(body.nonce)
      [] kind = "verify" ->
            /\ validate_device_id(body.device_id)
            /\ body.signature # DecodeError
            /\ ~(body.signature < 16)
            /\ body.session # NoString => validate_nonce(body.session)

\* Every handler publishing on the subject of the handshake.
Comm_subject_shared(kind) == "radio.commissioning.handshake"

\* The subject each handler passes to publish_event.
Comm_subject(kind) ==
    CASE kind = "handshake" -> "radio.commissioning.handshake"
      [] kind = "csr" -> "radio.commissioning.csr"
      [] kind = "verify" -> "radio.commissioning.verify"

\* The JSON event of each handler.
Comm_event(kind, body) ==
    CASE kind = "handshake" ->
            [type |-> "commissioning.handshake", deviceId |-> body.device_id,
             length |-> 0]
      [] kind = "csr" ->
            [type |-> "commissioning.csr", deviceId |-> body.device_id,
             length |-> body.csr]
      [] kind = "verify" ->
            [type |-> "commissioning.verify", deviceId |-> body.device_id,
             length |-> body.signature]

NewCommRequest ==
    [pc |-> "new", kind |-> "none", body |-> [device_id |-> NoString],
     published |-> "none", status |-> 0]

InitCommissioning ==
    /\ comm_requests = [q \in CommRequests |-> NewCommRequest]
    /\ comm_bus = <<>>

\* ble_handshake, submit_csr or verify_credentials up to the return of
\* publish_event, which logs the Err of bus.publish and returns.
Comm_handle(q) ==
    /\ comm_requests[q].pc = "new"
    /\ q > 1 => comm_requests[q - 1].pc = "done"
    /\ \E kind \in {"handshake", "csr", "verify"} :
       \E body \in CommBodies(kind) :
       \E publish \in {"ok", "fails"} :
          LET received == [comm_requests[q] EXCEPT !.kind = kind,
                                                   !.body = body]
          IN IF ~Comm_validate(kind, body)
             THEN /\ comm_requests' = [comm_requests EXCEPT ![q] =
                        [received EXCEPT !.pc = "done", !.status = 400]]
                  /\ UNCHANGED comm_bus
             ELSE /\ comm_requests' = [comm_requests EXCEPT ![q] =
                        [received EXCEPT !.pc = "respond",
                                         !.published = publish]]
                  /\ comm_bus' =
                        IF publish = "ok"
                        THEN Append(comm_bus,
                                [by |-> q, subject |-> Comm_subject(kind),
                                 event |-> Comm_event(kind, body)])
                        ELSE comm_bus

\* The handler returns Ok(Json(..)): the response is written.
Comm_respond(q) ==
    /\ comm_requests[q].pc = "respond"
    /\ comm_requests' = [comm_requests EXCEPT ![q] =
          [@ EXCEPT !.pc = "done", !.status = 200]]
    /\ UNCHANGED comm_bus

CommHandle ==
    (\E q \in CommRequests : Comm_handle(q)) /\ UNCHANGED notCommVars
CommRespond ==
    (\E q \in CommRequests : Comm_respond(q)) /\ UNCHANGED notCommVars

NextCommissioning ==
    \/ CommHandle
    \/ CommRespond

----------------------------------------------------------------------------
(* crates/common-msgbus/src/lib.rs: MockBus::request and MockBus::respond, *)
(* with tasks calling request on one subject and a subscriber of that      *)
(* subject that responds, any number of times, to the reply subjects of    *)
(* the messages it received.  The reply subject inproc.reply.N is N; the   *)
(* request_counter is far from wrapping.                                   *)

\* The tasks calling request, the respond calls made, and the last second
\* of the clock.
NumBusRequests == 2
MaxResponds == 3
MaxBusClock == 3

\* NatsConfig::default: the deadline of a request, in seconds.
RequestTimeoutSecs == 2

BusRequesters == 1..NumBusRequests

NoWaiter == [task |-> 0, sent |-> <<>>]

\* DashMap::remove that leaves the entry in the map.
pending_keep(pending, reply_to) == pending

\* DashMap::remove
pending_remove(pending, reply_to) ==
    [r \in DOMAIN pending \ {reply_to} |-> pending[r]]

\* DashMap::insert
pending_insert(pending, reply_to, waiter) ==
    [r \in DOMAIN pending \cup {reply_to} |->
        IF r = reply_to THEN waiter ELSE pending[r]]

NewBusRequest ==
    [pc |-> "idle", reply |-> 0 - 1, started_at |-> 0, channel |-> <<>>,
     result |-> "none", payload |-> <<>>]

\* MockBus::new, without subscribers.
InitBus ==
    /\ mock_bus = [request_counter |-> 0, pending |-> <<>>,
                   subscribed |-> FALSE, received |-> <<>>]
    /\ bus_requests = [q \in BusRequesters |-> NewBusRequest]
    /\ bus_responds = <<>>
    /\ bus_clock = 0

\* MockBus::subscribe on the subject of the requests.
Bus_subscribe ==
    /\ ~mock_bus.subscribed
    /\ mock_bus' = [mock_bus EXCEPT !.subscribed = TRUE]
    /\ UNCHANGED <<bus_requests, bus_responds, bus_clock>>

\* request: next_reply_subject.
Bus_request_begin(q) ==
    /\ bus_requests[q].pc = "idle"
    /\ mock_bus' = [mock_bus EXCEPT !.request_counter = @ + 1]
    /\ bus_requests' = [bus_requests EXCEPT ![q] =
          [@ EXCEPT !.pc = "send", !.reply = mock_bus.request_counter,
                    !.started_at = bus_clock]]
    /\ UNCHANGED <<bus_responds, bus_clock>>

\* request: pending.insert and the send on the subject's channel, which
\* fails without a subscriber.
Bus_request_send(q) ==
    /\ bus_requests[q].pc = "send"
    /\ LET reply == bus_requests[q].reply
           inserted == pending_insert(mock_bus.pending, reply,
                                      [task |-> q, sent |-> <<>>])
       IN IF mock_bus.subscribed
          THEN /\ mock_bus' = [mock_bus EXCEPT
                     !.pending = inserted,
                     !.received = Append(@, [reply |-> reply, task |-> q])]
               /\ bus_requests' = [bus_requests EXCEPT ![q].pc = "await"]
          ELSE /\ mock_bus' = [mock_bus EXCEPT !.pending = inserted]
               /\ bus_requests' = [bus_requests EXCEPT ![q] =
                     [@ EXCEPT !.pc = "done", !.result = "Err(Request)"]]
    /\ UNCHANGED <<bus_responds, bus_clock>>

\* request: rx.await yields what the one-shot channel was sent.
Bus_request_receive(q) ==
    /\ bus_requests[q].pc = "await"
    /\ bus_requests[q].channel # <<>>
    /\ bus_requests' = [bus_requests EXCEPT ![q] =
          [@ EXCEPT !.pc = "done", !.result = "Ok",
                    !.payload = bus_requests[q].channel[1]]]
    /\ UNCHANGED <<mock_bus, bus_responds, bus_clock>>

\* MockBus::respond, called by the subscriber for a message it received.
\* `listeners` tells whether the reply subject's own channel has
\* subscribers when the call falls back to publishing.
Bus_respond ==
    /\ Len(bus_responds) < MaxResponds
    /\ \E i \in 1..Len(mock_bus.received), listeners \in BOOLEAN :
          LET reply_to == mock_bus.received[i].reply
              payload == <<"pong", Len(bus_responds) + 1>>
          IN IF reply_to \in DOMAIN mock_bus.pending
             THEN LET waiter == mock_bus.pending[reply_to] IN
                  /\ mock_bus' = [mock_bus EXCEPT !.pending =
                        pending_remove(mock_bus.pending, reply_to)]
                  /\ bus_requests' = [bus_requests EXCEPT
                        ![waiter.task].channel = Append(@, payload)]
                  /\ bus_responds' = Append(bus_responds,
                        [reply_to |-> reply_to, payload |-> payload,
                         result |-> "Ok", to |-> waiter.task])
             ELSE /\ bus_responds' = Append(bus_responds,
                        [reply_to |-> reply_to, payload |-> payload,
                         result |-> IF listeners THEN "Ok"
                                    ELSE "Err(UnknownReplySubject)",
                         to |-> 0])
                  /\ UNCHANGED <<mock_bus, bus_requests>>
    /\ UNCHANGED bus_clock

\* A second passes.
Bus_time ==
    /\ bus_clock < MaxBusClock
    /\ bus_clock' = bus_clock + 1
    /\ UNCHANGED <<mock_bus, bus_requests, bus_responds>>

BusSubscribe == Bus_subscribe /\ UNCHANGED notBusVars
BusRequestBegin ==
    (\E q \in BusRequesters : Bus_request_begin(q)) /\ UNCHANGED notBusVars
BusRequestSend ==
    (\E q \in BusRequesters : Bus_request_send(q)) /\ UNCHANGED notBusVars
BusRequestReceive ==
    (\E q \in BusRequesters : Bus_request_receive(q)) /\ UNCHANGED notBusVars
BusRespond == Bus_respond /\ UNCHANGED notBusVars
BusTime == Bus_time /\ UNCHANGED notBusVars

NextBus ==
    \/ BusSubscribe
    \/ BusRequestBegin
    \/ BusRequestSend
    \/ BusRequestReceive
    \/ BusRespond

NextBusClock ==
    \/ BusSubscribe
    \/ BusRequestBegin
    \/ BusRequestSend
    \/ BusRequestReceive
    \/ BusRespond
    \/ BusTime

----------------------------------------------------------------------------
(* services/scene-svc/src/main.rs: SceneExecutor::apply_scene, for one     *)
(* call on a registry no one else writes to.  The registry is the          *)
(* DeviceRegistryClient of the tests: fetch_state yields the state of a    *)
(* device it holds, apply_state writes the state or returns Err having     *)
(* written nothing; either may fail on any call.                           *)

\* The most operations of a request.
MaxOperations == 3

\* The operations of a request: on the devices of the registry, and on one
\* it does not hold.
DeviceOperations ==
    [device_id : {"one", "two"}, state : {"on", "dim"}]
        \cup {[device_id |-> "gone", state |-> "on"]}

SceneRequests == UNION {[1..n -> DeviceOperations] : n \in 0..MaxOperations}

DeviceApplyResult(device_id, status, detail) ==
    [device_id |-> device_id, status |-> status, detail |-> detail]

\* MockRegistry::fetch_state, with the errors of the HTTP client.
fetch_state(devices, device_id, reachable) ==
    IF ~reachable THEN [ok |-> FALSE, value |-> "Registry"]
    ELSE IF device_id \notin DOMAIN devices
    THEN [ok |-> FALSE, value |-> "Missing"]
    ELSE [ok |-> TRUE, value |-> devices[device_id]]

\* MockRegistry::apply_state when it does not fail.
apply_state(devices, device_id, new_state) ==
    [d \in DOMAIN devices \cup {device_id} |->
        IF d = device_id THEN new_state ELSE devices[d]]

Reverse(s) == [i \in 1..Len(s) |-> s[Len(s) + 1 - i]]

\* The restores made in the order the states were pushed.
restore_order_forward(previous_states) == previous_states

\* previous_states.into_iter().rev()
restore_order(previous_states) == Reverse(previous_states)

\* The SceneStatus of the response.
SceneStatus(failure_encountered, results) ==
    IF failure_encountered
    THEN IF \E i \in 1..Len(results) : results[i].status = "RolledBack"
         THEN "PartialFailure"
         ELSE "Failed"
    ELSE "Applied"

SceneIdle ==
    [ pc |-> "idle", operations |-> <<>>, next |-> 1,
      previous_states |-> <<>>, failure_encountered |-> FALSE,
      results |-> <<>>, restoring |-> <<>>, status |-> "none",
      before |-> <<>>, writes |-> <<>> ]

\* The registry of the test scene_rolls_back_on_failure, and no call.
InitScene ==
    /\ scene_devices = [d \in {"one", "two"} |-> "off"]
    /\ scene_call = SceneIdle

\* Where the call goes after the iteration that leaves these locals.
after_operation(c) ==
    IF c.next <= Len(c.operations) THEN [c EXCEPT !.pc = "operations"]
    ELSE IF c.failure_encountered /\ c.previous_states # <<>>
    THEN [c EXCEPT !.pc = "restore",
                   !.restoring = restore_order(c.previous_states)]
    ELSE [c EXCEPT !.pc = "return"]

\* apply_scene is called with a request.
Scene_start ==
    /\ scene_call.pc = "idle"
    /\ \E request \in SceneRequests :
          scene_call' = after_operation(
              [SceneIdle EXCEPT !.operations = request,
                                !.before = scene_devices])
    /\ UNCHANGED scene_devices

\* One iteration of the loop over the operations.
Scene_operation ==
    /\ scene_call.pc = "operations"
    /\ LET c == scene_call
           op == c.operations[c.next]
           stepped == [c EXCEPT !.next = @ + 1]
       IN IF c.failure_encountered
          THEN /\ scene_call' = after_operation(
                     [stepped EXCEPT !.results = Append(@,
                         DeviceApplyResult(op.device_id, "Skipped",
                                           "skipped due to prior failure"))])
               /\ UNCHANGED scene_devices
          ELSE \E reachable \in BOOLEAN, applies \in BOOLEAN :
               LET prev == fetch_state(scene_devices, op.device_id, reachable)
                   failed(detail) ==
                       [stepped EXCEPT
                           !.failure_encountered = TRUE,
                           !.results = Append(@,
                               DeviceApplyResult(op.device_id, "Failed", detail))]
                   write == [device_id |-> op.device_id, state |-> op.state,
                             ok |-> applies]
               IN IF ~prev.ok
                  THEN /\ scene_call' = after_operation(failed(prev.value))
                       /\ UNCHANGED scene_devices
                  ELSE IF ~applies
                  THEN /\ scene_call' = after_operation(
                             [failed("Registry") EXCEPT
                                 !.writes = Append(@, write)])
                       /\ UNCHANGED scene_devices
                  ELSE /\ scene_devices' =
                             apply_state(scene_devices, op.device_id, op.state)
                       /\ scene_call' = after_operation(
                             [stepped EXCEPT
                                 !.previous_states =
                                     Append(@, <<op.device_id, prev.value>>),
                                 !.results = Append(@,
                                     DeviceApplyResult(op.device_id, "Applied",
                                                       "None")),
                                 !.writes = Append(@, write)])

\* One iteration of the loop over the reversed previous_states.
Scene_restore ==
    /\ scene_call.pc = "restore"
    /\ \E applies \in BOOLEAN :
       LET c == scene_call
           device_id == c.restoring[1][1]
           prev_state == c.restoring[1][2]
           rest == Tail(c.restoring)
       IN /\ scene_devices' =
                IF applies
                THEN apply_state(scene_devices, device_id, prev_state)
                ELSE scene_devices
          /\ scene_call' = [c EXCEPT
                !.restoring = rest,
                !.pc = IF rest = <<>> THEN "return" ELSE "restore",
                !.results = Append(@,
                    IF applies
                    THEN DeviceApplyResult(device_id, "RolledBack", "rolled back")
                    ELSE DeviceApplyResult(device_id, "Failed",
                                           "rollback failed")),
                !.writes = Append(@, [device_id |-> device_id,
                                      state |-> prev_state, ok |-> applies])]

\* The response is built and returned.
Scene_return ==
    /\ scene_call.pc = "return"
    /\ scene_call' = [scene_call EXCEPT
          !.pc = "done",
          !.status = SceneStatus(scene_call.failure_encountered,
                                 scene_call.results)]
    /\ UNCHANGED scene_devices

SceneStart == Scene_start /\ UNCHANGED notSceneVars
SceneOperation == Scene_operation /\ UNCHANGED notSceneVars
SceneRestore == Scene_restore /\ UNCHANGED notSceneVars
SceneReturn == Scene_return /\ UNCHANGED notSceneVars

NextScene ==
    \/ SceneStart
    \/ SceneOperation
    \/ SceneRestore
    \/ SceneReturn

----------------------------------------------------------------------------
(* The services a specification does not run stay as they start.           *)

InitLater ==
    /\ InitRadio
    /\ InitHealth
    /\ InitStore
    /\ InitCommissioning
    /\ InitBus
    /\ InitScene

InitRest ==
    /\ InitEngineIdle
    /\ InitLater

----------------------------------------------------------------------------
(* The specifications: every service starts as constructed; each           *)
(* specification runs the operations of one service.                       *)

\* One caller: the calls run one at a time, each to its return.
Init ==
    /\ callers = {1}
    /\ InitCore
    /\ InitAudit
    /\ InitRbac
    /\ InitLimiter
    /\ InitNoRequests
    /\ InitRest

Spec == Init /\ [][Next]_vars

\* Several callers on one instance: sections interleave at the mutex.
InitConc ==
    /\ callers = 1..NumConcurrent
    /\ InitCore
    /\ InitAudit
    /\ InitRbac
    /\ InitLimiter
    /\ InitNoRequests
    /\ InitRest

SpecConc == InitConc /\ [][Next]_vars

\* The audit log serving record_event requests, with restarts.
SpecAudit == Init /\ [][NextAudit]_vars

\* authorize run once on each policy and each (role, method, path).
InitSpecRbac ==
    /\ callers = {1}
    /\ InitCore
    /\ InitAudit
    /\ InitAuthorize
    /\ InitLimiter
    /\ InitNoRequests
    /\ InitRest

SpecRbac == InitSpecRbac /\ [][NextRbac]_vars

\* check() called at any instants on a limiter built with any settings.
InitSpecLimiter ==
    /\ callers = {1}
    /\ InitCore
    /\ InitAudit
    /\ InitRbac
    /\ InitSettings
    /\ InitNoRequests
    /\ InitRest

SpecLimiter == InitSpecLimiter /\ [][NextLimiter]_vars

\* Requests to the protected routes of a gateway with the policy and the
\* limiter of the tests.
InitSpecGateway ==
    /\ callers = {1}
    /\ InitCore
    /\ InitAudit
    /\ InitRbac
    /\ InitLimiter
    /\ InitGateway
    /\ InitRest

SpecGateway == InitSpecGateway /\ [][NextGateway]_vars

\* The base of every specification of another service: the updater, the
\* audit log and the gateway as constructed, and no call under way.
InitBase ==
    /\ callers = {1}
    /\ InitCore
    /\ InitAudit
    /\ InitRbac
    /\ InitLimiter
    /\ InitNoRequests

\* The rule engine: rules created and deleted while the scheduler ticks.
InitSpecEngine ==
    /\ InitBase
    /\ InitEngine
    /\ InitLater

SpecEngine == InitSpecEngine /\ [][NextEngine]_vars

\* The trace buffer of one rule filled by evaluation after evaluation, and
\* read through the trace endpoint.
InitSpecTraces ==
    /\ InitBase
    /\ InitTraces
    /\ InitLater

SpecTraces == InitSpecTraces /\ [][NextTraces]_vars

\* The radio coordinator handling requests together.
InitSpecRadio ==
    /\ InitBase
    /\ InitRest

SpecRadio == InitSpecRadio /\ [][NextRadio]_vars

\* One call of the health gate, with the clock.
InitSpecHealth ==
    /\ InitBase
    /\ InitRest

SpecHealth == InitSpecHealth /\ [][NextHealth]_vars

\* One process saving to and loading from a FileStateStore, with crashes.
InitSpecStore ==
    /\ InitBase
    /\ InitRest

SpecStore == InitSpecStore /\ [][NextStore]_vars

\* One client's commissioning requests, one after the other.
InitSpecCommissioning ==
    /\ InitBase
    /\ InitRest

SpecCommissioning == InitSpecCommissioning /\ [][NextCommissioning]_vars

\* Tasks calling request on one MockBus, with a responding subscriber.
InitSpecBus ==
    /\ InitBase
    /\ InitRest

SpecBus == InitSpecBus /\ [][NextBus]_vars

\* The same, with the time that passes.
InitSpecBusClock ==
    /\ InitBase
    /\ InitRest

SpecBusClock == InitSpecBusClock /\ [][NextBusClock]_vars

\* One apply_scene call, with a registry that may fail any call.
InitSpecScene ==
    /\ InitBase
    /\ InitRest

SpecScene == InitSpecScene /\ [][NextScene]_vars

----------------------------------------------------------------------------
(* The claims on the updater.                                              *)

ActiveSlots(s) == {x \in Slot : s.slots[x].state = "Active"}
PendingSlots(s) == {x \in Slot : s.slots[x].state \in {"Staged", "Booting"}}

\* C1: in every state reached by calls run one at a time from the default
\* state, at most one slot is in state Active.
C1_AtMostOneActive == Cardinality(ActiveSlots(state)) <= 1

\* C2: at most one slot is Staged or Booting, and a slot is Staged or Booting
\* exactly when `staging` names it.
C2_StagingNamesPendingSlot ==
    /\ Cardinality(PendingSlots(state)) <= 1
    /\ \A x \in Slot : x \in PendingSlots(state) <=> state.staging = x

\* C3: while a commit_on_health call stands between its begin_commit section
\* and its finalize/fail section, the only step taken on the instance is that
\* call's own second section: no other call's section runs.
C3_CommitSerial ==
    [][\A p \in callers : call[p].pc = "health" => Core_commit_finish(p)]_vars

\* C4: whenever the mutex is free, the UpdaterState in memory is the state
\* the store holds (the state a restart would load).
C4_MemoryNotAheadOfStore == state = load_or_default(stored)

\* C5: after every rollback that returned Ok, and after every stage that
\* returned Ok having written a new artifact, previous_active is None.
C5_PreviousActiveCleared ==
    ( /\ last.op \in {"rollback", "stage"}
      /\ last.err = "None"
      /\ last.op = "stage" => last.post # last.pre )
    => last.post.previous_active = NoSlot

\* C6 as claimed: UpdaterState.generation never decreases, and every step that changes a
\* slot's state or artifact increases it and records the new generation on
\* that slot.
C6_EveryMutationBumps ==
    [][ /\ state'.generation >= state.generation
        /\ \A x \in Slot :
              ( \/ state'.slots[x].state # state.slots[x].state
                \/ state'.slots[x].artifact # state.slots[x].artifact )
              => /\ state'.generation > state.generation
                 /\ state'.slots[x].generation = state'.generation ]_vars

\* C6 as amended: UpdaterState.generation never decreases; a stage call that writes a slot
\* increases it by exactly one and records the new value on that slot alone;
\* the sections of commit_on_health, mark_bad and rollback change neither the
\* global generation nor any slot's generation.
C6_OnlyStageBumps ==
    [][ /\ state'.generation >= state.generation
        /\ \/ /\ state'.generation = state.generation + 1
              /\ \E x \in Slot :
                   /\ state'.slots[x].state = "Staged"
                   /\ state'.slots[x].generation = state'.generation
                   /\ state'.slots[other(x)] = state.slots[other(x)]
           \/ ~(state' # state /\ Stage)
        /\ \/ /\ state'.generation = state.generation
              /\ \A x \in Slot :
                   state'.slots[x].generation = state.slots[x].generation
           \/ ~(CommitBegin \/ CommitFinish \/ MarkBad \/ Rollback) ]_vars

\* A commit has made a staged slot Active and left every generation alone.
C6_Witness ==
    /\ last.op = "commit"
    /\ last.healthy = "true"
    /\ last.pre.generation >= 1
    /\ last.post.slots # last.pre.slots
    /\ last.post.generation = last.pre.generation

\* C7: whenever `staging` is Some, `active` names a different slot.
C7_ActiveStagingDiffer ==
    state.staging # NoSlot => state.active # state.staging

\* The call that returned last is a stage of the artifact the staging slot
\* was already Staged with, its bundle targeting that slot.
C8_Restaged ==
    /\ last.op = "stage"
    /\ last.inner.err # "NotRun"
    /\ last.pre.staging # NoSlot
    /\ last.target = last.pre.staging
    /\ last.pre.slots[last.pre.staging].state = "Staged"
    /\ last.pre.slots[last.pre.staging].artifact = last.artifact

\* C8: a stage call made while the staging slot is Staged with the same
\* artifact (the bundle targeting that slot) gets that slot back from
\* UpdaterState::stage and leaves the whole UpdaterState as it was:
\* generation, slot generation, artifact and all pointers.
C8_StageIdempotent ==
    C8_Restaged
    => /\ last.inner = [err |-> "None", slot |-> last.pre.staging]
       /\ last.post = last.pre

\* Such a repeated stage has returned Ok.
C8_Witness == C8_Restaged /\ last.err = "None" /\ state = last.pre

\* The last two calls were a stage targeting Y, made with X active and
\* Active, Y available and nothing staged, then a commit_on_health whose
\* health gate yielded true.
C9_Scenario(X, Y) ==
    /\ prior.op = "stage"
    /\ prior.target = Y
    /\ prior.inner.err = "None"
    /\ prior.pre.active = X
    /\ prior.pre.slots[X].state = "Active"
    /\ is_slot_available_for_stage(prior.pre, Y)
    /\ prior.pre.staging = NoSlot
    /\ last.op = "commit"
    /\ last.healthy = "true"

\* C9: from a state with active = X in state Active, the other slot Y
\* available and nothing staged, a stage targeting Y followed by a
\* commit_on_health whose health gate yields true ends with Y Active,
\* X Inactive, active = Y, previous_active = X, staging and last_failed None.
C9_StageThenHealthyCommit ==
    \A X \in Slot :
        C9_Scenario(X, other(X))
        => /\ last.post.slots[other(X)].state = "Active"
           /\ last.post.slots[X].state = "Inactive"
           /\ last.post.active = other(X)
           /\ last.post.previous_active = X
           /\ last.post.staging = NoSlot
           /\ last.post.last_failed = NoSlot

\* The scenario has run with B active and A Bad before the stage.
C9_Witness ==
    /\ C9_Scenario("B", "A")
    /\ prior.pre.slots["A"].state = "Bad"
    /\ last.err = "None"
    /\ state = last.post

\* What C10 says of the state, for a commit whose health gate yielded false.
C10_FailedCommitState ==
    LET slot == last.inner.slot IN
    /\ last.post.slots[slot].state = "Bad"
    /\ last.post.last_failed = slot
    /\ last.post.staging = NoSlot
    /\ last.post.active = last.pre.active
    /\ last.pre.active # NoSlot
       => last.post.slots[last.pre.active].state
            = last.pre.slots[last.pre.active].state

\* C10 as claimed: when the health gate yields false the staged slot is Bad,
\* last_failed names it, staging is None, `active` and the active slot's
\* state are as before, and the call returns HealthQuorumFailed, HTTP 503.
C10_FailedCommitReturns503 ==
    (last.op = "commit" /\ last.healthy = "false")
    => /\ C10_FailedCommitState
       /\ last.err = "HealthQuorumFailed"
       /\ last.status = 503

\* C10 as amended: the same state changes, always; the call returns
\* HealthQuorumFailed (503) when the save after fail_commit succeeds and the
\* store error (500) when that save fails.
C10_FailedCommitMarksBad ==
    (last.op = "commit" /\ last.healthy = "false")
    => /\ C10_FailedCommitState
       /\ \/ last.err = "HealthQuorumFailed" /\ last.status = 503
          \/ last.err = "Store" /\ last.status = 500

\* A commit started with B active has failed its health gate and returned
\* HealthQuorumFailed.
C10_Witness ==
    /\ last.op = "commit"
    /\ last.healthy = "false"
    /\ last.err = "HealthQuorumFailed"
    /\ last.pre.active = "B"
    /\ state = last.post

\* C11: when a commit_on_health that returned Ok moved `active` from X to Y
\* and the next two calls are mark_bad and rollback, the rollback leaves X as
\* the only Active slot: active = X, X Active, Y Inactive, and
\* previous_active, last_failed and staging all None.
C11_MarkBadRollbackRestores ==
    moved.phase = "rollback"
    => /\ last.op = "rollback"
       /\ last.inner = [err |-> "None", slot |-> moved.from]
       /\ last.post.active = moved.from
       /\ ActiveSlots(last.post) = {moved.from}
       /\ last.post.slots[moved.to].state = "Inactive"
       /\ last.post.previous_active = NoSlot
       /\ last.post.last_failed = NoSlot
       /\ last.post.staging = NoSlot

\* The three calls have run after a commit that moved `active` from B to A,
\* and the rollback returned Ok.
C11_Witness ==
    /\ moved = [phase |-> "rollback", from |-> "B", to |-> "A"]
    /\ last.op = "rollback"
    /\ last.err = "None"
    /\ last.pre.slots["A"].state = "Bad"
    /\ state = last.post

----------------------------------------------------------------------------
(* The claims on the audit log.                                            *)

\* C12: the records in the file form one chain: the first record's
\* prev_hash is 32 zero bytes, every later record's prev_hash is the hash of
\* the record right before it, and every record's hash is the SHA-256 of its
\* prev_hash followed by its serialized event.
C12_OneChain ==
    LET records == RecordsIn(log_file) IN
    \A i \in 1..Len(records) :
        /\ records[i].prev_hash = IF i = 1 THEN encode(ZeroHash)
                                           ELSE records[i - 1].hash
        /\ decode(records[i].hash)
             = Sha256(decode(records[i].prev_hash), to_vec(records[i].event))

\* The recomputation of the chain from the first record: the hash the i-th
\* record must carry, given the events of the records up to it.
RECURSIVE Recomputed(_, _)
Recomputed(records, i) ==
    IF i = 0 THEN ZeroHash
    ELSE append_hash(Recomputed(records, i - 1), records[i].event)

Disagrees(records, i) == Recomputed(records, i) # decode(records[i].hash)

\* The file reads back as records whose stored hashes the recomputation
\* agrees with.
Verifies(contents) ==
    /\ read_all(contents).err = "None"
    /\ \A i \in 1..Len(read_all(contents).records) :
          ~Disagrees(read_all(contents).records, i)

\* The values a stored field can be changed to.
StoredHashes(records) ==
    {encode(ZeroHash)} \cup {records[i].hash : i \in 1..Len(records)}
FieldValues(records, field) ==
    CASE field = "timestamp" -> Timestamps
      [] field = "event" -> Events
      [] field \in {"prev_hash", "hash"} -> StoredHashes(records)

\* The records with one field of the record at `index` changed.
Mutations(records, fields) ==
    UNION { UNION { { [records |-> [records EXCEPT ![i] = [@ EXCEPT ![f] = v]],
                       index |-> i]
                        : v \in {w \in FieldValues(records, f) :
                                   w # records[i][f]} }
                    : i \in 1..Len(records) }
            : f \in fields }

\* The records in another order; `index` is the first place that changed.
Reorderings(records) ==
    { [records |-> [i \in 1..Len(records) |-> records[perm[i]]],
       index |-> CHOOSE i \in 1..Len(records) :
                    /\ perm[i] # i
                    /\ \A j \in 1..(i - 1) : perm[j] = j]
        : perm \in {f \in [1..Len(records) -> 1..Len(records)] :
                      /\ \A a, b \in 1..Len(records) : f[a] = f[b] => a = b
                      /\ \E a \in 1..Len(records) : f[a] # a} }

DisagreesFrom(t) ==
    \A i \in t.index..Len(t.records) : Disagrees(t.records, i)

\* C13 as claimed: after any change of any field of any stored record, and
\* after any reordering of the records, the recomputation disagrees with the
\* stored hash at the first altered index and at every index after it.
C13_AnyByteEvident ==
    Verifies(log_file)
    => LET records == read_all(log_file).records IN
       \A t \in Mutations(records, {"timestamp", "prev_hash", "hash", "event"})
                  \cup Reorderings(records) :
           DisagreesFrom(t)

\* C13 as amended: after a change of a stored record's event the
\* recomputation disagrees with the stored hash at that index and at every
\* index after it; after a change of a record's stored hash, and after a
\* reordering of the records, it disagrees at the first altered index.
C13_EventEvident ==
    Verifies(log_file)
    => LET records == read_all(log_file).records IN
       /\ \A t \in Mutations(records, {"event"}) : DisagreesFrom(t)
       /\ \A t \in Mutations(records, {"hash"}) \cup Reorderings(records) :
             Disagrees(t.records, t.index)

\* The file holds three records that verify, the first two with the same
\* event.
C13_Witness ==
    /\ Verifies(log_file)
    /\ Len(read_all(log_file).records) = 3
    /\ read_all(log_file).records[1].event = read_all(log_file).records[2].event
    /\ read_all(log_file).records[3].event # read_all(log_file).records[2].event

\* C14: with requests in flight together, every record's prev_hash is the
\* hash of the record written right before it in the file, and no two
\* records of the file share a prev_hash.
C14_StrictOrder ==
    LET records == RecordsIn(log_file) IN
    /\ \A i \in 2..Len(records) : records[i].prev_hash = records[i - 1].hash
    /\ \A i, j \in 1..Len(records) :
          i # j => records[i].prev_hash # records[j].prev_hash

----------------------------------------------------------------------------
(* The claims on the RBAC policy.                                          *)

\* The roles reachable from the given ones along `inherit`.
RECURSIVE Closure(_, _)
Closure(inherit, roles) ==
    LET more == roles \cup UNION {inherit[r] : r \in roles} IN
    IF more = roles THEN roles ELSE Closure(inherit, more)

MatchingRules(p, method, path) ==
    {i \in 1..Len(p.rules) :
        /\ method \in p.rules[i].methods
        /\ \/ p.rules[i].pattern = path
           \/ /\ p.rules[i].pattern[Len(p.rules[i].pattern)] = "*"
              /\ \E rest \in {SubSeq(path, k, Len(path)) : k \in 1..(Len(path) + 1)} :
                    SubSeq(p.rules[i].pattern, 1, Len(p.rules[i].pattern) - 1)
                        \o rest = path}

\* C17: authorize returns the decision of the first rule, in file order,
\* whose methods contain the method and whose pattern matches the path:
\* allowed exactly when the role's expanded role set meets that rule's roles,
\* with that rule's audit action; when no rule matches it denies with no
\* audit action.
C17_FirstMatch ==
    authz.returned.decided
    => LET matching == MatchingRules(policy, authz.method, authz.path) IN
       IF matching = {}
       THEN authz.returned.decision = Decision(FALSE, NoAction)
       ELSE LET first == CHOOSE i \in matching : \A j \in matching : i <= j
                rule == policy.rules[first]
            IN /\ authz.returned.decision.allowed
                    <=> Closure(policy.inherit, {authz.role}) \cap rule.roles # {}
               /\ authz.returned.decision.audit_action = rule.audit_action

\* authorize has decided a request that two rules match, the second of
\* which alone would decide otherwise.
C17_Witness ==
    /\ authz.returned.decided
    /\ Len(policy.rules) = 2
    /\ MatchingRules(policy, authz.method, authz.path) = {1, 2}
    /\ authz.returned.decision.allowed
    /\ policy.rules[2].roles = {}
    /\ policy.rules[2].audit_action # policy.rules[1].audit_action

\* C18: when authorize allows (method, path) for a role, it allows it for
\* every role that inherits that role, directly or through a chain.
C18_InheritanceMonotone ==
    (authz.returned.decided /\ authz.returned.decision.allowed)
    => \A r \in Role :
          authz.role \in Closure(policy.inherit, policy.inherit[r])
          => authorize(policy, r, authz.method, authz.path).allowed

\* authorize has allowed a request for a role that another role inherits
\* through a chain of two and not directly.
C18_Witness ==
    /\ authz.returned.decided
    /\ authz.returned.decision.allowed
    /\ \E r \in Role \ {authz.role} :
          /\ authz.role \notin policy.inherit[r]
          /\ authz.role \in Closure(policy.inherit, policy.inherit[r])
          /\ r \notin Closure(policy.inherit, {authz.role})

\* The roles that can be reached from a role along any number of inherits
\* edges, the role itself included.
RECURSIVE ReachableWithin(_, _, _)
ReachableWithin(inherit, role, n) ==
    IF n = 0 THEN {role}
    ELSE LET near == ReachableWithin(inherit, role, n - 1) IN
         near \cup {r \in Role : \E via \in near : r \in inherit[via]}

InheritEdges(inherit) == {e \in Role \X Role : e[2] \in inherit[e[1]]}

\* C32: role expansion terminates for every inheritance graph, with
\* self-loops and cycles too: its loop pops the stack at most once for the
\* starting role and once for every inherits edge; and it returns exactly
\* the roles reachable from the starting role through inherits.
C32_ExpansionTerminates ==
    authz.returned.decided
    => /\ expand_roles_pops(policy.inherit, {}, <<authz.role>>)
             <= 1 + Cardinality(InheritEdges(policy.inherit))
       /\ expand_roles(policy.inherit, {}, <<authz.role>>)
             = ReachableWithin(policy.inherit, authz.role, Cardinality(Role))

\* authorize has expanded a role that inherits itself and lies on a cycle
\* through another role.
C32_Witness ==
    /\ authz.returned.decided
    /\ \E r \in Role \ {authz.role} :
          /\ r \in policy.inherit[authz.role]
          /\ authz.role \in policy.inherit[r]
    /\ expand_roles_pops(policy.inherit, {}, <<authz.role>>) = 3

----------------------------------------------------------------------------
(* The claims on the rate limiter.                                         *)

Admitted(i, j) == {k \in i..j : checks[k].ok}

\* C19: over any window of time, the check() calls admitted in it number at
\* most capacity + T * rate, T being the length of the window: for any two
\* calls i <= j, the calls admitted from i to j are worth at most the
\* capacity plus what the rate yields between the two instants.
C19_Conservation ==
    \A i \in 1..Len(checks) : \A j \in i..Len(checks) :
        Cardinality(Admitted(i, j)) * TokenUnit
            <= limiter.capacity + (checks[j].time - checks[i].time) * limiter.rate

\* Calls were admitted, the bucket ran empty and a call was rejected, time
\* passed and a call was admitted again.
C19_Witness ==
    /\ Len(checks) = MaxChecks
    /\ checks[1].ok
    /\ ~checks[2].ok
    /\ checks[3].ok
    /\ checks[4].ok
    /\ checks[4].time > checks[3].time

\* Calls i..j are back to back: the rate yields less than one token between
\* the first and the last.
BackToBack(i, j) == (checks[j].time - checks[i].time) * limiter.rate < TokenUnit

\* C20: of calls made back to back from a full bucket, the first `capacity`
\* are admitted and every further one is rejected with retry_after = 1
\* second; and a call made at least 1/rate seconds after a rejected call,
\* with no call between the two, is admitted.
C20_ExhaustAndRefill ==
    /\ \A i \in 1..Len(checks) : \A j \in i..Len(checks) :
          (checks[i].full /\ BackToBack(i, j))
          => IF (j - i + 1) * TokenUnit <= limiter.capacity
             THEN checks[j].ok
             ELSE ~checks[j].ok /\ checks[j].retry_after = 1
    /\ \A k \in 1..(Len(checks) - 1) :
          ( /\ ~checks[k].ok
            /\ (checks[k + 1].time - checks[k].time) * limiter.rate >= TokenUnit )
          => checks[k + 1].ok

\* A bucket of capacity 2 was emptied by two calls, the third was rejected,
\* and the call made one token's time later was admitted.
C20_Witness ==
    /\ limiter.capacity = 2 * TokenUnit
    /\ Len(checks) = 4
    /\ checks[1].full /\ checks[1].ok /\ checks[2].ok
    /\ ~checks[3].ok /\ checks[3].retry_after = 1
    /\ BackToBack(1, 3)
    /\ (checks[4].time - checks[3].time) * limiter.rate >= TokenUnit
    /\ checks[4].ok

\* C40: a client whose check() was rejected and who calls again after
\* waiting the retry_after it was given, with no call to the limiter between
\* the two, is admitted, whatever rpm and burst the limiter was built with.
C40_RetryAfterAdmits ==
    \A k \in 1..(Len(checks) - 1) :
        ( /\ ~checks[k].ok
          /\ checks[k + 1].time - checks[k].time
                >= checks[k].retry_after * TicksPerSecond )
        => checks[k + 1].ok

----------------------------------------------------------------------------
(* The claims on the gateway pipeline.                                     *)

Outcomes(r) == [i \in 1..Len(r.emitted) |-> r.emitted[i].event.outcome]
StepsNamed(r, name) == {i \in 1..Len(r.steps) : r.steps[i] = name}

\* C15: for every request the rate-limit check runs before the RBAC
\* authorization, and a request the limiter rejects gets 429 with
\* Retry-After and one audit event with outcome throttle, and is neither
\* authorized by RBAC nor passed to the handler.
C15_RateLimitBeforeRbac ==
    \A q \in GatewayRequests :
        LET r == requests[q] IN
        /\ \A i \in StepsNamed(r, "authorize") :
              \E j \in StepsNamed(r, "check") : j < i
        /\ r.throttled
           => /\ r.status = 429
              /\ r.retry_after = 1
              /\ \E i \in 1..Len(r.emitted) : Outcomes(r)[i] = "throttle"
              /\ StepsNamed(r, "authorize") = {}
              /\ StepsNamed(r, "handler") = {}

\* C16 as claimed: audit events are emitted only after the access decision;
\* a request RBAC denied has emitted exactly one event, outcome deny; a
\* request RBAC allowed has, once it is answered, emitted two: a deny event
\* first and then, after the handler returned, an allow event.
C16_AllowEmitsTwice ==
    \A q \in GatewayRequests :
        LET r == requests[q] IN
        /\ \A i \in StepsNamed(r, "audit") :
              \E j \in StepsNamed(r, "authorize") : j < i
        /\ r.pc = "done"
           => IF ~r.allowed
              THEN Outcomes(r) = <<"deny">>
              ELSE /\ Outcomes(r) = <<"deny", "allow">>
                   /\ r.steps[Len(r.steps)] = "audit"
                   /\ \A i \in StepsNamed(r, "handler") : i < Len(r.steps)

\* C16 as amended: audit events are emitted only after the access decision;
\* a request RBAC denied has emitted exactly one event, outcome deny; a
\* request RBAC allowed has, once it is answered, emitted exactly one event
\* from rbac_guard, outcome allow, as the last step after the limiter and
\* the handler returned, and never a deny event; when the limiter rejected
\* it, the throttle event comes before the allow event.
C16_AllowEmitsOnce ==
    \A q \in GatewayRequests :
        LET r == requests[q] IN
        /\ \A i \in StepsNamed(r, "audit") :
              \E j \in StepsNamed(r, "authorize") : j < i
        /\ \A i \in 1..Len(r.emitted) :
              Outcomes(r)[i] = "deny" => ~r.allowed
        /\ r.pc = "done"
           => IF ~r.allowed
              THEN Outcomes(r) = <<"deny">>
              ELSE /\ Outcomes(r) = IF r.throttled THEN <<"throttle", "allow">>
                                                   ELSE <<"allow">>
                   /\ r.steps[Len(r.steps)] = "audit"
                   /\ \A i \in StepsNamed(r, "check") \cup StepsNamed(r, "handler") :
                         i < Len(r.steps)

\* One request was denied by RBAC and another, allowed, went through the
\* handler and has been answered.
C16_Witness ==
    \E q1, q2 \in GatewayRequests :
        /\ requests[q1].pc = "done" /\ ~requests[q1].allowed
        /\ requests[q1].emitted[1].delivery = "posted"
        /\ requests[q2].pc = "done" /\ requests[q2].allowed
        /\ requests[q2].steps = <<"authorize", "check", "handler", "audit">>
        /\ requests[q2].status = 200

\* Whether the policy's first rule matching (method, path) names a role of
\* the role's expanded set.
Permits(p, role, method, path) ==
    LET matching == MatchingRules(p, method, path) IN
    /\ matching # {}
    /\ LET first == CHOOSE i \in matching : \A j \in matching : i <= j IN
       Closure(p.inherit, {role}) \cap p.rules[first].roles # {}

\* C36: the handler of a protected route runs only for a request that RBAC
\* authorized and the rate limiter admitted, after both have decided; a
\* request that was denied or throttled never reaches a handler.
C36_HandlerOnlyIfAdmitted ==
    \A q \in GatewayRequests :
        LET r == requests[q] IN
        /\ (r.pc = "handler" \/ StepsNamed(r, "handler") # {})
           => /\ r.allowed /\ ~r.throttled
              /\ \E method \in Methods :
                    Permits(policy, r.event.role, method, r.event.resource)
              /\ \A i \in StepsNamed(r, "handler") :
                    /\ \E j \in StepsNamed(r, "authorize") : j < i
                    /\ \E j \in StepsNamed(r, "check") : j < i
              /\ Cardinality(StepsNamed(r, "handler")) <= 1
        /\ (r.status = StatusForbidden \/ r.throttled
            \/ (r.pc = "done" /\ ~r.allowed))
           => r.pc # "handler" /\ StepsNamed(r, "handler") = {}

\* One request was throttled and answered, and another went through RBAC,
\* the limiter and the handler.
C36_Witness ==
    \E q1, q2 \in GatewayRequests :
        /\ requests[q1].pc = "done" /\ requests[q1].throttled
        /\ requests[q1].status = StatusTooManyRequests
        /\ requests[q2].pc = "done" /\ requests[q2].allowed
        /\ StepsNamed(requests[q2], "handler") # {}

----------------------------------------------------------------------------
(* The claims on the rule engine.                                          *)

BufferOf(deques, id) == IF id \in DOMAIN deques THEN deques[id] ELSE <<>>

\* C21: on each scheduler tick t every registered rule with next_tick <= t
\* is evaluated exactly once, gets exactly one new trace entry and has its
\* next_tick advanced by interval_ticks, saturating at u64::MAX; a rule with
\* next_tick > t is neither evaluated nor changed on that tick.
C21_DueRulesEvaluatedOnce ==
    [][ scheduler'.tick # scheduler.tick =>
        \A id \in DOMAIN rules :
            LET t == scheduler'.tick
                s == rules[id].schedule
                old == BufferOf(traces, id)
                new == BufferOf(traces', id)
            IN /\ id \in DOMAIN rules'
               /\ IF s.next_tick <= t
                  THEN /\ evaluated'[id] = 1
                       /\ Len(new) >= 1
                       /\ new = Append(IF Len(old) = 100 THEN Tail(old) ELSE old,
                                       new[Len(new)])
                       /\ new[Len(new)].timestamp = scheduler'.now
                       /\ rules'[id].definition = rules[id].definition
                       /\ rules'[id].schedule.interval_ticks = s.interval_ticks
                       /\ rules'[id].schedule.next_tick =
                             Min(s.next_tick + s.interval_ticks, u64_MAX)
                  ELSE /\ evaluated'[id] = 0
                       /\ rules'[id] = rules[id]
                       /\ new = old ]_vars

\* A tick has evaluated an interval rule whose next_tick saturated, and has
\* left another registered rule alone.
C21_Witness ==
    \E id, id2 \in DOMAIN rules :
        /\ id \in DOMAIN evaluated /\ id2 \in DOMAIN evaluated
        /\ evaluated[id] = 1
        /\ rules[id].schedule.interval_ticks # u64_MAX
        /\ rules[id].schedule.next_tick = u64_MAX
        /\ scheduler.tick < u64_MAX
        /\ Len(BufferOf(traces, id)) >= 1
        /\ evaluated[id2] = 0

\* C22: for every rule id the trace buffer holds at most 100 entries; a
\* recording into a full buffer evicts exactly the oldest entry; and the
\* trace endpoint answers with the retained entries newest first.
C22_TraceRing ==
    [][ /\ \A id \in DOMAIN traces' : Len(traces'[id]) <= 100
        /\ \A id \in DOMAIN traces \cap DOMAIN traces' :
              (traces'[id] # traces[id] /\ Len(traces[id]) = 100)
              => /\ Len(traces'[id]) = 100
                 /\ SubSeq(traces'[id], 1, 99) = Tail(traces[id])
                 /\ traces'[id][100].timestamp > traces[id][100].timestamp
        /\ (rule_calls'.trace # rule_calls.trace
                /\ rule_calls'.trace.status = 200)
           => LET kept == BufferOf(traces, rule_calls'.trace.rule_id)
                  answer == rule_calls'.trace.executions
              IN /\ Len(answer) = Len(kept)
                 /\ \A i \in 1..Len(kept) : answer[i] = kept[Len(kept) + 1 - i]
                 /\ \A i \in 1..(Len(answer) - 1) :
                       answer[i].timestamp > answer[i + 1].timestamp ]_vars

\* The buffer of r1 is full and has evicted entries, and the endpoint has
\* answered with the 100 retained entries.
C22_Witness ==
    /\ Len(traces["r1"]) = 100
    /\ traces["r1"][1].timestamp > 1
    /\ rule_calls.trace.status = 200
    /\ Len(rule_calls.trace.executions) = 100
    /\ rule_calls.trace.executions[1] = traces["r1"][100]

\* Whether the step is create_rule's insert of a rule under the write lock.
CreateInserts == rule_calls.creating # NoPayload /\ rule_calls'.creating = NoPayload

IsInterval(id) == rules'[id].definition.trigger.type = "interval"

\* C37: an interval rule with interval_ticks = k created while the scheduler
\* is at tick t is first evaluated at tick t + k, and two consecutive
\* evaluations of a rule are exactly k ticks apart, whatever other rules are
\* registered.  The scheduler evaluates a rule on the first tick that has
\* reached its next_tick, so the rule is created with next_tick = t + k and
\* every evaluation, at tick t', leaves next_tick = t' + k.
C37_IntervalFromCreation ==
    [][ /\ (CreateInserts /\ rule_calls'.created = "ok"
            /\ rule_calls.creating.trigger.type = "interval")
           => LET schedule == rules'[rule_calls.creating.id].schedule IN
              schedule.next_tick = scheduler.tick + schedule.interval_ticks
        /\ scheduler'.tick # scheduler.tick
           => \A id \in DOMAIN rules' :
                 (IsInterval(id) /\ evaluated'[id] = 1)
                 => rules'[id].schedule.next_tick
                       = scheduler'.tick + rules'[id].schedule.interval_ticks
      ]_vars

\* C38: registering a rule never overflows or panics: whatever rules the
\* registry holds, event-trigger rules with next_tick = u64::MAX included,
\* ScheduleState::new yields interval_ticks >= 1 and, for an interval rule,
\* next_tick = current_tick + interval_ticks with no arithmetic overflow
\* (current_tick being what create_rule passes, the greatest next_tick
\* registered, or 0); and no event-trigger rule is ever evaluated by the
\* scheduler's periodic loop.
C38_RegisteringNeverOverflows ==
    [][ /\ CreateInserts
           => /\ rule_calls'.created = "ok"
              /\ LET id == rule_calls.creating.id
                     next_ticks == {rules[k].schedule.next_tick : k \in DOMAIN rules}
                     current_tick == IF next_ticks = {} THEN 0
                                     ELSE CHOOSE n \in next_ticks :
                                              \A k \in next_ticks : k <= n
                 IN /\ id \in DOMAIN rules'
                    /\ rules'[id].schedule.interval_ticks >= 1
                    /\ IsInterval(id)
                       => /\ current_tick + rules'[id].schedule.interval_ticks
                                <= u64_MAX
                          /\ rules'[id].schedule.next_tick
                                = current_tick + rules'[id].schedule.interval_ticks
        /\ scheduler'.tick # scheduler.tick
           => \A id \in DOMAIN rules' :
                 evaluated'[id] = 1 => IsInterval(id)
      ]_vars

----------------------------------------------------------------------------
(* The claims on the radio coordinator.                                    *)

\* What the validation of a request requires, in the words of the API.
RadioValid(r) ==
    /\ r.request.channel \in 11..26
    /\ (r.kind = "dataset" \/ r.request.dataset_id # NoValue)
          => r.request.dataset_id \in Hex32

EventsBy(log, q) == {i \in 1..Len(log) : log[i].by = q}

C39_MapFollowsLastPublish ==
    \A kind \in {"dataset", "channel"} :
        LET accepted == {q \in RadioRequests : radio_requests[q].status = 202}
        IN
        ( /\ \A q \in RadioRequests : radio_requests[q].pc \in {"new", "done"}
          /\ accepted # {}
          /\ \A q \in accepted : radio_requests[q].kind = kind )
        => LET published == radio_bus[Len(radio_bus)].event
               left == IF kind = "dataset" THEN radio_map.dataset
                                           ELSE radio_map.channel
           IN /\ left # NoSnapshot
              /\ left.channel = published.channel
              /\ left.dataset_id = published.dataset_id

----------------------------------------------------------------------------
(* The claims on the updater's HTTP errors and on the verified stage.      *)

\* C24: every failure of a precondition of the updater's state machine
\* (staging while the staging slot is Booting, commit with nothing staged,
\* commit with the staging slot in an invalid state, rollback without a
\* previous-active or failed slot) is answered with 409 Conflict.
C24_PreconditionFailuresAre409 ==
    last.err \in {"SlotBooting", "NothingStaged", "InvalidStageState",
                  "NoPreviousActive", "NoFailedSlot"}
    => last.status = 409

\* What the bundle format asks of a bundle: the bytes of the component have
\* the digest the manifest declares, and the signature verifies.
BundleSound(bundle) ==
    /\ (bundle.bytes = "c1") = (bundle.sha256 = "h1")
    /\ bundle.signed

\* C25: a stage call whose bundle fails verification returns InvalidBundle,
\* answered with 400, and leaves the UpdaterState in memory and the stored
\* one as they were; a stage call changes either only for a bundle the
\* verifier accepted.
C25_StageVerifiesFirst ==
    [][ (last' # last /\ last'.op = "stage")
        => /\ ~BundleSound(last'.bundle)
              => /\ last'.err = "InvalidBundle"
                 /\ last'.status = 400
                 /\ state' = state
                 /\ stored' = stored
           /\ (state' # state \/ stored' # stored)
              => BundleSound(last'.bundle) ]_vars

\* A stage call returned 400 for a component whose bytes do not match its
\* checksum, after an earlier stage had been stored.
C25_Witness ==
    /\ last.op = "stage"
    /\ last.err = "InvalidBundle"
    /\ last.bundle.signed
    /\ compute_sha256(last.bundle.bytes) # last.bundle.sha256
    /\ last.pre.staging # NoSlot
    /\ stored.some

----------------------------------------------------------------------------
(* The claim on the health gate.                                           *)

\* C26: the health gate returns within bounded time of its deadline: a call
\* that has not returned is never later than one poll interval past its
\* deadline, even with a GET in flight that is never answered.
C26_ReturnsByDeadline ==
    health.pc \in {"get", "sleep"}
    => health_clock <= health.deadline_at + PollInterval

----------------------------------------------------------------------------
(* The claims on the file-backed state store.                              *)

\* C27 as stated: whenever load returns Some(s), s was passed to an earlier
\* save call that ran to completion.
C27_LoadedWasCompleted ==
    store_run.loaded.kind = "Some"
    => store_run.loaded.value \in store_run.completed

\* C27: whenever load returns Some(s), s is exactly a state passed to an
\* earlier save call that had written all of its bytes, never a partially
\* written or mixed state, including when the process crashes at any point
\* inside save.
C27_LoadedWasWritten ==
    store_run.loaded.kind = "Some"
    => store_run.loaded.value \in store_run.written

\* A save crashed after its first writes, over the file of an earlier save
\* of another state, and the load after it did not return a state.
C27_Witness ==
    /\ store_run.completed # {}
    /\ store_run.save.pc = "idle"
    /\ state_file.exists
    /\ Len(state_file.bytes) \in 1..3
    /\ store_run.loaded.kind = "Err"

----------------------------------------------------------------------------
(* The claims on the commissioning flow.                                   *)

CommEventsBy(q) == {i \in 1..Len(comm_bus) : comm_bus[i].by = q}

\* What section 4.9 asks of each body: a device id of 4 to 64 characters
\* and a nonce or session of 6 to 128, of letters, digits, '-' and '_'; a
\* QR payload with the LOKAN: prefix; a CSR that decodes to at least one
\* byte; a signature that decodes to at least 16.
Identifier(s, least, most) ==
    /\ Len(s) >= least
    /\ Len(s) <= most
    /\ {s[i] : i \in 1..Len(s)} \subseteq AsciiAlphanumeric \cup {"-", "_"}

CommSound(r) ==
    /\ Identifier(r.body.device_id, 4, 64)
    /\ r.kind = "handshake"
          => /\ Len(r.body.qr_payload) >= 6
             /\ \A i \in 1..6 : r.body.qr_payload[i] = LokanPrefix[i]
             /\ Identifier(r.body.nonce, 6, 128)
    /\ r.kind = "csr"
          => /\ r.body.csr >= 1
             /\ r.body.nonce # NoString => Identifier(r.body.nonce, 6, 128)
    /\ r.kind = "verify"
          => /\ r.body.signature >= 16
             /\ r.body.session # NoString
                   => Identifier(r.body.session, 6, 128)

\* A request answered with 400 was rejected by validation and publishes no
\* event; the events on the bus are in the order of their requests, each on
\* the subject of its handler.
CommOrdered ==
    /\ \A q \in CommRequests :
          LET r == comm_requests[q] IN
          /\ r.status = 400 => ~CommSound(r) /\ CommEventsBy(q) = {}
          /\ r.pc \in {"respond", "done"} /\ r.status # 400 => CommSound(r)
    /\ \A i \in 1..Len(comm_bus) :
          /\ comm_bus[i].subject =
                CASE comm_requests[comm_bus[i].by].kind = "handshake" ->
                        "radio.commissioning.handshake"
                  [] comm_requests[comm_bus[i].by].kind = "csr" ->
                        "radio.commissioning.csr"
                  [] comm_requests[comm_bus[i].by].kind = "verify" ->
                        "radio.commissioning.verify"
          /\ \A j \in 1..Len(comm_bus) :
                i < j => comm_bus[i].by < comm_bus[j].by

\* C28 as stated: every accepted request has exactly one event on the bus
\* when its response is written, events are in request order and a
\* rejected request publishes none.
C28_AcceptedPublishesOnce ==
    /\ CommOrdered
    /\ \A q \in CommRequests :
          comm_requests[q].status = 200 => Cardinality(CommEventsBy(q)) = 1

\* C28: every accepted request calls publish exactly once, on its own
\* subject, after validation and before the response is written, and has
\* one event on the bus if that publish succeeded and none if it failed;
\* the events of a sequence of accepted requests are in request order, and
\* a request rejected by validation publishes no event.
C28_AcceptedPublishesOnceIfBusTakesIt ==
    /\ CommOrdered
    /\ \A q \in CommRequests :
          LET r == comm_requests[q] IN
          (r.pc = "respond" \/ r.status = 200)
          => /\ r.published \in {"ok", "fails"}
             /\ Cardinality(CommEventsBy(q)) =
                    IF r.published = "ok" THEN 1 ELSE 0

\* The commissioning flow: handshake, CSR of 16 bytes and verify with a
\* signature of 32 bytes, all answered 200, with their three events on the
\* bus in that order.
C28_Witness ==
    /\ NumCommRequests >= 3
    /\ \A q \in 1..3 : comm_requests[q].status = 200
    /\ Len(comm_bus) = 3
    /\ comm_bus[1].subject = "radio.commissioning.handshake"
    /\ comm_bus[2].subject = "radio.commissioning.csr"
    /\ comm_bus[2].event.length = 16
    /\ comm_bus[3].subject = "radio.commissioning.verify"
    /\ comm_bus[3].event.length = 32

----------------------------------------------------------------------------
(* The claims on the in-process bus.                                       *)

RespondsOn(reply_to) ==
    {i \in 1..Len(bus_responds) : bus_responds[i].reply_to = reply_to}

\* C29: the reply subjects of the requests differ from one another; the
\* first respond on a request's reply subject is delivered to the task of
\* that request and to no other, once; a later respond on it reaches no
\* requester; a request returns the payload of that first respond.
C29_OneShotReply ==
    /\ \A q1, q2 \in BusRequesters :
          (q1 # q2 /\ bus_requests[q1].pc # "idle"
                   /\ bus_requests[q2].pc # "idle")
          => bus_requests[q1].reply # bus_requests[q2].reply
    /\ \A q \in BusRequesters :
          LET r == bus_requests[q]
              on == IF r.pc = "idle" THEN {} ELSE RespondsOn(r.reply)
          IN /\ Len(r.channel) <= 1
             /\ Len(r.channel) = IF on = {} THEN 0 ELSE 1
             /\ \A i \in on :
                   IF \A j \in on : i <= j
                   THEN /\ bus_responds[i].to = q
                        /\ r.channel = <<bus_responds[i].payload>>
                   ELSE bus_responds[i].to = 0
             /\ r.result = "Ok"
                   => r.channel = <<r.payload>> /\ on # {}

\* Two requests were answered, each by the first respond on its own reply
\* subject, and a later respond on one of the two reached nobody.
C29_Witness ==
    /\ \A q \in BusRequesters : bus_requests[q].result = "Ok"
    /\ Len(bus_responds) = 3
    /\ \E i, j \in 1..3 :
          /\ i < j
          /\ bus_responds[i].reply_to = bus_responds[j].reply_to
          /\ bus_responds[j].result = "Err(UnknownReplySubject)"

\* C30: every request call completes within its deadline: no call is still
\* waiting for a response once the deadline of a request has passed.
C30_RequestTimesOut ==
    \A q \in BusRequesters :
       bus_requests[q].pc = "await"
       => bus_clock <= bus_requests[q].started_at + RequestTimeoutSecs

----------------------------------------------------------------------------
(* The claims on the scene service.                                        *)

\* The state the device of operation i has when operations 1..i-1 have been
\* applied to the registry `before`.
StateBeforeOperation(before, operations, i) ==
    LET earlier == {j \in 1..(i - 1) :
                       operations[j].device_id = operations[i].device_id}
    IN IF earlier = {} THEN before[operations[i].device_id]
       ELSE operations[CHOOSE j \in earlier : \A k \in earlier : k <= j].state

\* The operation an apply_scene call that has returned failed at.
FailedAt(c) ==
    CHOOSE i \in 1..Len(c.operations) :
        /\ c.results[i].status = "Failed"
        /\ \A j \in 1..(i - 1) : c.results[j].status # "Failed"

\* C31: when applying a scene fails at an operation, the operations before
\* it were applied and are restored in reverse order of application, each
\* to the state its device had just before that operation wrote it; the
\* operations after the failing one are never applied; every restore has
\* its own per-device result, RolledBack or, when the restore itself
\* fails, Failed; and when every restore succeeds, every device is left in
\* the state it had before the call.
C31_RollbackRestores ==
    (scene_call.pc = "done" /\ scene_call.failure_encountered)
    => LET c == scene_call
           n == Len(c.operations)
           f == FailedAt(c)
           k == f - 1
           w == Len(c.writes)
           restore(j) == c.writes[w - k + j]
       IN /\ Len(c.results) = n + k
          /\ \A i \in 1..n :
                /\ c.results[i].device_id = c.operations[i].device_id
                /\ c.results[i].status =
                      IF i < f THEN "Applied"
                      ELSE IF i = f THEN "Failed" ELSE "Skipped"
          /\ w \in {2 * k, 2 * k + 1}
          /\ \A i \in 1..k :
                c.writes[i] = [device_id |-> c.operations[i].device_id,
                               state |-> c.operations[i].state, ok |-> TRUE]
          /\ w = 2 * k + 1
                => c.writes[f] = [device_id |-> c.operations[f].device_id,
                                  state |-> c.operations[f].state, ok |-> FALSE]
          /\ \A j \in 1..k :
                /\ restore(j).device_id = c.operations[f - j].device_id
                /\ restore(j).state =
                      StateBeforeOperation(c.before, c.operations, f - j)
                /\ c.results[n + j].device_id = c.operations[f - j].device_id
                /\ c.results[n + j].status =
                      IF restore(j).ok THEN "RolledBack" ELSE "Failed"
          /\ (\A j \in 1..k : restore(j).ok) => scene_devices = c.before
          /\ c.status = IF \E j \in 1..k : restore(j).ok
                        THEN "PartialFailure" ELSE "Failed"

\* A call wrote one device twice, failed at its third operation, restored
\* both writes and returned.
C31_Witness ==
    /\ scene_call.pc = "done"
    /\ scene_call.failure_encountered
    /\ Len(scene_call.operations) = 3
    /\ scene_call.operations[1].device_id = scene_call.operations[2].device_id
    /\ scene_call.operations[1].state # scene_call.operations[2].state
    /\ scene_call.results[3].status = "Failed"
    /\ scene_call.results[4].status = "RolledBack"
    /\ scene_call.results[5].status = "RolledBack"
    /\ scene_call.status = "PartialFailure"

----------------------------------------------------------------------------
(* The claims on the updater under concurrent calls, on the slot a commit  *)
(* leaves behind and on the errors of the state operations.                *)

\* C33: under every interleaving of UpdaterCore calls on one instance,
\* whenever `active` is Some(s) the slot s is in state Active.
C33_ActiveSlotIsActive ==
    state.active # NoSlot => state.slots[state.active].state = "Active"

\* C34: a commit_on_health call whose begin_commit put the staging slot in
\* Booting leaves that slot Active or Bad when it returns, whatever the
\* health client yields and whether or not the saves succeed; no call that
\* has returned leaves a slot in state Booting.
C34_CommitLeavesNoBooting ==
    /\ (last.op = "commit" /\ last.inner.err = "None")
       => last.post.slots[last.inner.slot].state \in {"Active", "Bad"}
    /\ last.op # "none"
       => \A x \in Slot : last.post.slots[x].state # "Booting"

\* The errors UpdaterState::stage, begin_commit and rollback return.
StateErrors ==
    { "TargetSlotMismatch", "SlotBooting", "TargetSlotUnavailable",
      "NoAvailableSlot", "NothingStaged", "InvalidStageState",
      "NoPreviousActive", "NoFailedSlot" }

\* The lookups of the six operations that panic on a missing entry: the
\* slots map indexed by a slot (stage, is_slot_available_for_stage), and the
\* expect() on the entry of the staging slot (stage, begin_commit) and of the
\* active slot (mark_active_bad).
LookupPanics(s) ==
    \/ \E x \in Slot : x \notin DOMAIN s.slots
    \/ s.staging # NoSlot /\ s.staging \notin DOMAIN s.slots
    \/ s.active # NoSlot /\ s.active \notin DOMAIN s.slots

\* C35: a stage, begin_commit or rollback that returns one of its errors
\* leaves UpdaterState exactly as it was before the call, and in no state
\* reached from the default state does a lookup of the six state operations
\* panic.
C35_ErrorsLeaveState ==
    /\ (last.op \in {"stage", "commit", "rollback"}
        /\ last.inner.err \in StateErrors)
       => last.post = last.pre
    /\ ~LookupPanics(state)

\* An error is returned in a state other than the default one.
C35_Witness ==
    /\ last.op \in {"stage", "commit", "rollback"}
    /\ last.inner.err \in StateErrors
    /\ last.pre # DefaultState
    /\ last.pre.previous_active # NoSlot

====
